---------------------------- MODULE Spec2Model ----------------------------
(***************************************************************************)
(* A model of tifftools (DigitalSlideArchive/tifftools): the TIFF reader,  *)
(* the TIFF writer with its classic -> BigTIFF retry, payload copying with *)
(* deduplication, and the concat / split transforms.                       *)
(*                                                                         *)
(* Files are sequences of bytes 0..255 with the byte layout of the source  *)
(* (8/16 byte headers, 12/20 byte directory entries, 4/8 byte pointers).   *)
(* The one scaling is the range of the 32-bit and 64-bit integer formats:  *)
(* TLC's integers are 32 bits wide, so 2^32 is written Limit32 and 2^64    *)
(* Limit64, with Limit32 a small number.  The byte width of every field is *)
(* kept; only the largest value that a 4-byte or 8-byte field may hold is  *)
(* scaled, and with it the file size at which a classic TIFF overflows.    *)
(***************************************************************************)
EXTENDS Integers, Sequences, FiniteSets, TLC

\* 2^32 of the source, scaled (see above).
Limit32 == 200
\* The number of payload blocks one call of write_tag_data is given.
MaxBlocks == 3
\* The number of attempts after which write_tiff is stopped in the model.
MaxAttempts == 4
\* The number of directories after which read_tiff is stopped in the model.
MaxIfdReads == 8

Limit31 == Limit32 \div 2
Limit64 == Limit32 * Limit32
Limit63 == Limit64 \div 2

VARIABLES
    td,     \* write_tag_data driver: the call's inputs, then its results
    disk,   \* the file system: a dictionary from the paths that exist to bytes
    orig,   \* the tree as read_tiff returned it and the caller edited it
    tree,   \* the same tree object (info) as the commands since have left it
    back,   \* the tree read back from the file the last write made
    last,   \* the last command: its arguments and its outcome
    log     \* the commands run so far: name, input path and options of each

vars == <<td, disk, orig, tree, back, last, log>>

(***************************************************************************)
(* Generic helpers.                                                        *)
(***************************************************************************)
Min(a, b) == IF a <= b THEN a ELSE b
Max(a, b) == IF a >= b THEN a ELSE b
\* b'\x00' * n
RECURSIVE Zeros(_)
Zeros(n) ==
    IF n <= 0 THEN <<>>
    ELSE LET half == Zeros(n \div 2)
         IN half \o half \o (IF n % 2 = 1 THEN <<0>> ELSE <<>>)
\* data[a:b] of Python (0-based, end exclusive, clipped to the sequence)
Slice(s, a, b) == SubSeq(s, a + 1, Min(b, Len(s)))
\* a dictionary: a function whose domain is the set of its keys
EmptyDict == [k \in {} |-> 0]
DictSet(d, k, v) == (k :> v) @@ d
\* the dictionary d without the keys outside S
RECURSIVE Restrict(_, _)
Restrict(d, S) ==
    IF S = {} THEN EmptyDict
    ELSE LET k == CHOOSE x \in S : TRUE IN (k :> d[k]) @@ Restrict(d, S \ {k})

(***************************************************************************)
(* Streams.  A destination is either an open file (its bytes and its       *)
(* position) or a _WriteTracker, which records only position and length.   *)
(***************************************************************************)
FileStream(buf, pos) == [kind |-> "file", buf |-> buf, pos |-> pos, len |-> Len(buf)]
WriteTracker(p) == [kind |-> "tracker", buf |-> <<>>, pos |-> p, len |-> p]

Tell(s) == s.pos

\* write(data): a file is zero-filled up to the position when the position is
\* past its end; a tracker only moves its position and length.
ZeroFill(buf, pos) == IF pos > Len(buf) THEN buf \o Zeros(pos - Len(buf)) ELSE buf
Overwrite(buf, pos, data) ==
    SubSeq(buf, 1, pos) \o data \o SubSeq(buf, pos + Len(data) + 1, Len(buf))
Write(s, data) ==
    IF s.kind = "tracker"
    THEN [s EXCEPT !.pos = s.pos + Len(data), !.len = Max(s.len, s.pos + Len(data))]
    ELSE IF Len(data) = 0 THEN s
    ELSE [s EXCEPT !.buf = Overwrite(ZeroFill(s.buf, s.pos), s.pos, data),
                   !.pos = s.pos + Len(data), !.len = Max(s.len, s.pos + Len(data))]

SeekSet(s, off) == [s EXCEPT !.pos = off]
\* truncate(size) of a file: the position stays
Truncate(s, size) == [s EXCEPT !.buf = SubSeq(s.buf, 1, Min(size, Len(s.buf))),
                               !.len = Min(size, Len(s.buf))]
\* seek(0, os.SEEK_END)
SeekEnd(s) == [s EXCEPT !.pos = s.len]

(***************************************************************************)
(* check_offset: can length bytes be read at offset of a file of filelen   *)
(* bytes.                                                                  *)
(***************************************************************************)
\* (check_offsetStartOnly: the length of the read is not checked)
check_offsetStartOnly(filelen, offset, length) ==
    offset >= 8 /\ length >= 0 /\ offset <= filelen

check_offset(filelen, offset, length) ==
    offset >= 8 /\ length >= 0 /\ offset + length <= filelen


(***************************************************************************)
(* A source file opened for reading: its name (the key of the dedup memo)  *)
(* and its bytes.  read() past the end of the file returns what is there.  *)
(***************************************************************************)
SrcRead(src, offset, length) == Slice(src.buf, offset, offset + length)

\* hashlib.new('sha1', data).digest(): the model's digest of a byte run is the
\* byte run itself (equal digests exactly for equal contents).
Digest(data) == data

\* The dedup record of write_tiff: {'hashes', 'reused', 'hashlog'}.  The memo
\* 'hashlog' holds two kinds of keys in the source, (hash(src name), offset)
\* tuples and hash(data) integers; they are kept in two dictionaries here.
NoDedup == [on |-> FALSE, hashes |-> EmptyDict, reused |-> 0,
            hashlog |-> EmptyDict, datalog |-> EmptyDict]
NewDedup(old) == [on |-> TRUE, hashes |-> EmptyDict, reused |-> 0,
                  hashlog |-> old.hashlog, datalog |-> old.datalog]

(***************************************************************************)
(* write_tag_data: copy the blocks (offsets[i], lengths[i]) of src to      *)
(* dest and return the destination offset of each.  Indices are 1-based.   *)
(***************************************************************************)
PairLess(a, b) == a[1] < b[1] \/ (a[1] = b[1] /\ a[2] < b[2])

RECURSIVE InsertSorted(_, _)
InsertSorted(s, x) ==
    IF s = <<>> THEN <<x>>
    ELSE IF PairLess(x, Head(s)) THEN <<x>> \o s
    ELSE <<Head(s)>> \o InsertSorted(Tail(s), x)

RECURSIVE SortPairs(_)
SortPairs(s) == IF s = <<>> THEN <<>> ELSE InsertSorted(SortPairs(Tail(s)), Head(s))

\* sorted([(offset, idx) for idx, offset in enumerate(offsets)])
OffsetList(offsets) == SortPairs([i \in 1..Len(offsets) |-> <<offsets[i], i>>])

\* the memo key of a block: (hash(getattr(src, 'name', src)), offset)
BlockHashKey(src, offset, length) == <<src.name, offset>>

\* if len(blocks) and offset == blocks[-1][0] + blocks[-1][1]: extend, else append
AddBlock(blocks, offset, length) ==
    IF Len(blocks) > 0 /\ offset = blocks[Len(blocks)][1] + blocks[Len(blocks)][2]
    THEN [blocks EXCEPT ![Len(blocks)] = <<@[1], @[2] + length>>]
    ELSE Append(blocks, <<offset, length>>)

\* "a block repeats the previous block": same offset and same length
\* (IsRepeatIgnoringLength: the comparison with the length forgotten)
IsRepeatIgnoringLength(st, offset, length) == st.hasLast /\ st.lastOffset = offset

IsRepeat(st, offset, length) ==
    st.hasLast /\ st.lastOffset = offset /\ st.lastLength = length

\* (WtdMarkKeepsOffset: the block keeps the offset it has in the source)
WtdMarkKeepsOffset(st, offset, idx, length) ==
    [st EXCEPT !.hasLast = TRUE, !.lastOffset = offset, !.lastLength = length,
               !.lastOffsetIdx = idx, !.destOffsets[idx] = offset]

\* lines 724-725: the block becomes the last block and is to go to desttell
WtdMark(st, offset, idx, length) ==
    [st EXCEPT !.hasLast = TRUE, !.lastOffset = offset, !.lastLength = length,
               !.lastOffsetIdx = idx, !.destOffsets[idx] = st.desttell]

\* lines 727-739: h of the block, from the memo or from the bytes of the block
BlockHash(dedup, src, offset, length) ==
    IF BlockHashKey(src, offset, length) \in DOMAIN dedup.hashlog
    THEN dedup.hashlog[BlockHashKey(src, offset, length)]
    ELSE Digest(SrcRead(src, offset, length))

\* lines 749-754: if length: the block joins the blocks to copy
WtdGroup(st, offset, length) ==
    IF length # 0
    THEN [st EXCEPT !.blocks = AddBlock(@, offset, length), !.desttell = @ + length]
    ELSE st

\* lines 726-746: if dedup: h is memoized; bytes already written for h are
\* reused (length = 0), otherwise h is recorded at the block's destination
WtdDedup(st, key, h, offset, idx, length) ==
    IF h \in DOMAIN st.dedup.hashes
    THEN [st EXCEPT !.destOffsets[idx] = st.dedup.hashes[h],
                    !.dedup.hashlog = DictSet(@, key, h),
                    !.dedup.reused = @ + 1]
    ELSE WtdGroup([st EXCEPT !.dedup.hashlog = DictSet(@, key, h),
                             !.dedup.hashes = DictSet(@, h, st.desttell)],
                  offset, length)

\* One turn of the while loop over offsetList (lines 715-755).
WtdStep(st, src, srclen, lengths, pair) ==
    LET offset == pair[1]
        idx    == pair[2]
        length == lengths[idx]
    IN IF ~(offset # 0 /\ check_offset(srclen, offset, length)) THEN st
       ELSE IF IsRepeat(st, offset, length)
       THEN [st EXCEPT !.destOffsets[idx] = st.destOffsets[st.lastOffsetIdx]]
       ELSE IF st.dedup.on
       THEN WtdDedup(WtdMark(st, offset, idx, length), BlockHashKey(src, offset, length),
                     BlockHash(st.dedup, src, offset, length), offset, idx, length)
       ELSE WtdGroup(WtdMark(st, offset, idx, length), offset, length)

RECURSIVE WtdLoop(_, _, _, _, _, _)
WtdLoop(st, src, srclen, lengths, offsetList, olidx) ==
    IF olidx > Len(offsetList) THEN st
    ELSE WtdLoop(WtdStep(st, src, srclen, lengths, offsetList[olidx]),
                 src, srclen, lengths, offsetList, olidx + 1)

\* for offset, length in blocks: copy the block from src to dest
RECURSIVE CopyBlocks(_, _, _, _)
CopyBlocks(dest, src, blocks, i) ==
    IF i > Len(blocks) THEN dest
    ELSE CopyBlocks(Write(dest, SrcRead(src, blocks[i][1], blocks[i][2])),
                    src, blocks, i + 1)

\* lines 756-762: the blocks are copied and destOffsets is returned
WtdCopy(dest, src, st) ==
    [dest |-> CopyBlocks(dest, src, st.blocks, 1), dedup |-> st.dedup,
     destOffsets |-> st.destOffsets, err |-> ""]

\* (write_tag_dataPaired: the offsets are paired with the lengths as far as
\* both go, as zip does, instead of refusing arrays of different lengths)
write_tag_dataPaired(dest, src, offsets, lengths, srclen, dedup) ==
    WtdCopy(dest, src,
            WtdLoop([destOffsets |-> Zeros(Min(Len(offsets), Len(lengths))),
                     hasLast |-> FALSE, lastOffset |-> 0, lastLength |-> 0,
                     lastOffsetIdx |-> 0, blocks |-> <<>>,
                     desttell |-> Tell(dest), dedup |-> dedup],
                    src, srclen, lengths,
                    OffsetList(SubSeq(offsets, 1, Min(Len(offsets), Len(lengths)))), 1))

write_tag_data(dest, src, offsets, lengths, srclen, dedup) ==
    IF Len(offsets) # Len(lengths)
    THEN [dest |-> dest, dedup |-> dedup, destOffsets |-> <<>>,
          err |-> "Offsets and byte counts do not correspond."]
    ELSE WtdCopy(dest, src,
                 WtdLoop([destOffsets |-> Zeros(Len(offsets)),
                          hasLast |-> FALSE, lastOffset |-> 0, lastLength |-> 0,
                          lastOffsetIdx |-> 0, blocks |-> <<>>,
                          desttell |-> Tell(dest), dedup |-> dedup],
                         src, srclen, lengths, OffsetList(offsets), 1))


(***************************************************************************)
(* The driver of write_tag_data: calls with every small offsets / lengths  *)
(* array over two source files, with and without dedup, the destination    *)
(* and the dedup record carried from one call to the next.                 *)
(***************************************************************************)
\* Two sources of 16 and 12 bytes: an 8 byte header, then payload in which
\* some runs repeat ((8,2) = (10,2) in "a") and some differ.
TdSources == { [name |-> "a", buf |-> <<73, 73, 42, 0, 8, 0, 0, 0, 1, 2, 1, 2, 3, 1, 2, 4>>],
               [name |-> "b", buf |-> <<73, 73, 42, 0, 8, 0, 0, 0, 1, 2, 5, 6>>] }
TdOffsets == {0, 8, 10}
TdLengths == {0, 2, 3}
TdSrc(name) == CHOOSE s \in TdSources : s.name = name

TdInit ==
    /\ disk = EmptyDict /\ orig = 0 /\ tree = 0 /\ back = 0 /\ last = 0 /\ log = <<>>
    /\ \E dedup \in {NoDedup, NewDedup(NoDedup)} :
        td = [calls |-> 0, used |-> 0, dest |-> FileStream(Zeros(16), 16),
              start |-> 16, dedup |-> dedup, srcname |-> "a",
              offsets |-> <<>>, lengths |-> <<>>, destOffsets |-> <<>>, err |-> ""]

TagDataCall ==
    /\ UNCHANGED <<disk, orig, tree, back, last, log>>
    /\ td.err = ""
    /\ td.calls \in {0, 1}      \* two calls share the destination and the memo
    /\ \E src \in TdSources, n \in 0..(MaxBlocks - td.used) :
       \E m \in {n, Max(n - 1, 0)} :
       \E offsets \in [1..n -> TdOffsets], lengths \in [1..m -> TdLengths] :
       \E r \in {write_tag_data(td.dest, src, offsets, lengths, Len(src.buf), td.dedup)} :
             td' = [calls |-> td.calls + 1, used |-> td.used + n, dest |-> r.dest,
                    start |-> Tell(td.dest), dedup |-> r.dedup, srcname |-> src.name,
                    offsets |-> offsets, lengths |-> lengths,
                    destOffsets |-> r.destOffsets, err |-> r.err]

TdNext == TagDataCall

SpecTagData == TdInit /\ [][TdNext]_vars

\* the block of index i of the last call can be read from its source
TdReadable(i) ==
    td.offsets[i] # 0 /\ td.offsets[i] >= 8 /\ td.lengths[i] >= 0
    /\ td.offsets[i] + td.lengths[i] <= Len(TdSrc(td.srcname).buf)
\* the destination bytes of block i and its source bytes
TdDestBytes(i) == Slice(td.dest.buf, td.destOffsets[i], td.destOffsets[i] + td.lengths[i])
TdSrcBytes(i) == Slice(TdSrc(td.srcname).buf, td.offsets[i], td.offsets[i] + td.lengths[i])

\* blocks i < j of the last call are consecutive in the sorted offset list
TdConsecutive(i, j) ==
    /\ i < j /\ td.offsets[i] = td.offsets[j]
    /\ \A k \in (i + 1)..(j - 1) : td.offsets[k] # td.offsets[i]

\* C8: without dedup, write_tag_data returns one destination offset per input
\* index, in the index order of the offsets array; the destination bytes at
\* the offset returned for a readable block equal the block's source bytes;
\* and two readable blocks with the same (offset, length) that are consecutive
\* in the sorted list share one destination offset.
C8_CopyPreservesIndexOrder ==
    (td.calls > 0 /\ td.err = "" /\ ~td.dedup.on) =>
        /\ Len(td.destOffsets) = Len(td.offsets)
        /\ \A i \in 1..Len(td.offsets) :
              TdReadable(i) => /\ td.destOffsets[i] >= td.start
                               /\ TdDestBytes(i) = TdSrcBytes(i)
        /\ \A i, j \in 1..Len(td.offsets) :
              (TdConsecutive(i, j) /\ TdReadable(i) /\ td.lengths[i] = td.lengths[j])
                  => td.destOffsets[i] = td.destOffsets[j]

\* C8 witness: a call without dedup whose source offsets are not in index
\* order and which holds an exact repeat, all three blocks readable.
C8_Witness ==
    /\ td.calls > 0 /\ td.err = "" /\ ~td.dedup.on /\ Len(td.offsets) = 3
    /\ \A i \in 1..3 : TdReadable(i) /\ td.lengths[i] > 0
    /\ td.offsets[1] > td.offsets[2]
    /\ td.offsets[3] = td.offsets[1] /\ td.lengths[3] = td.lengths[1]
    /\ td.destOffsets[1] > td.destOffsets[2]

\* C7: with dedup, the destination bytes at the offset returned for a readable
\* block equal the block's source bytes.
C7_DedupKeepsContent ==
    (td.calls > 0 /\ td.err = "" /\ td.dedup.on) =>
        \A i \in 1..Len(td.offsets) : TdReadable(i) => TdDestBytes(i) = TdSrcBytes(i)

(***************************************************************************)
(* struct.pack / struct.unpack with a byte order mark: standard sizes, no  *)
(* alignment.  A format is a sequence of format characters.                *)
(***************************************************************************)
PackSize(ch) == CASE ch \in {"B", "b"} -> 1
                  [] ch \in {"H", "h"} -> 2
                  [] ch \in {"L", "l"} -> 4
                  [] OTHER -> 8             \* "Q", "q"
PackSigned(ch) == ch \in {"b", "h", "l", "q"}
PackMin(ch) == CASE ch = "b" -> -128
                 [] ch = "h" -> -32768
                 [] ch = "l" -> -Limit31
                 [] ch = "q" -> -Limit63
                 [] OTHER -> 0
PackMax(ch) == CASE ch = "B" -> 255
                 [] ch = "b" -> 127
                 [] ch = "H" -> 65535
                 [] ch = "h" -> 32767
                 [] ch = "L" -> Limit32 - 1
                 [] ch = "l" -> Limit31 - 1
                 [] ch = "Q" -> Limit64 - 1
                 [] OTHER -> Limit63 - 1    \* "q"

Reverse(s) == [i \in 1..Len(s) |-> s[Len(s) + 1 - i]]

\* the n low bytes of v >= 0, least significant first
RECURSIVE LEBytes(_, _)
LEBytes(v, n) == IF n = 0 THEN <<>> ELSE <<v % 256>> \o LEBytes(v \div 256, n - 1)

\* two's complement of width n bytes, least significant byte first
LEEncode(v, n) ==
    IF v >= 0 THEN LEBytes(v, n)
    ELSE LET m == LEBytes(-v - 1, n) IN [i \in 1..n |-> 255 - m[i]]

\* the value of bytes given most significant first
RECURSIVE BEValue(_, _)
BEValue(b, acc) == IF b = <<>> THEN acc ELSE BEValue(Tail(b), acc * 256 + Head(b))

PackOne(bigEndian, ch, v) ==
    LET le == LEEncode(v, PackSize(ch)) IN IF bigEndian THEN Reverse(le) ELSE le

UnpackOne(bigEndian, ch, b) ==
    LET be == IF bigEndian THEN b ELSE Reverse(b)
    IN IF PackSigned(ch) /\ be[1] >= 128
       THEN -BEValue([i \in 1..Len(be) |-> 255 - be[i]], 0) - 1
       ELSE BEValue(be, 0)


RECURSIVE PackBytes(_, _, _)
PackBytes(bigEndian, fmt, values) ==
    IF fmt = <<>> THEN <<>>
    ELSE PackOne(bigEndian, Head(fmt), Head(values))
         \o PackBytes(bigEndian, Tail(fmt), Tail(values))

\* struct.pack(bom + fmt, *values): struct.error when the number of values is
\* not the number of format characters or a value is out of its range.
Pack(bigEndian, fmt, values) ==
    IF Len(fmt) # Len(values)
       \/ \E i \in 1..Len(fmt) : values[i] < PackMin(fmt[i]) \/ values[i] > PackMax(fmt[i])
    THEN [err |-> "struct.error", bytes |-> <<>>]
    ELSE [err |-> "", bytes |-> PackBytes(bigEndian, fmt, values)]

\* struct.unpack(bom + fmt, b) for len(b) = calcsize(fmt)
RECURSIVE Unpack(_, _, _)
Unpack(bigEndian, fmt, b) ==
    IF fmt = <<>> THEN <<>>
    ELSE <<UnpackOne(bigEndian, Head(fmt), SubSeq(b, 1, PackSize(Head(fmt))))>>
         \o Unpack(bigEndian, Tail(fmt), SubSeq(b, PackSize(Head(fmt)) + 1, Len(b)))

\* pack * count
RECURSIVE Repeat(_, _)
Repeat(fmt, count) == IF count <= 0 THEN <<>> ELSE fmt \o Repeat(fmt, count - 1)

(***************************************************************************)
(* The Datatype table.  FLOAT and DOUBLE values are not interpreted by the *)
(* program; they stand here as the unsigned value of their bit pattern.    *)
(***************************************************************************)
BYTE == 1
ASCII == 2
SHORT == 3
LONG == 4
RATIONAL == 5
SBYTE == 6
UNDEFINED == 7
SSHORT == 8
SLONG == 9
SRATIONAL == 10
FLOAT == 11
DOUBLE == 12
IFD == 13
LONG8 == 16
SLONG8 == 17
IFD8 == 18

DatatypeIds == {BYTE, ASCII, SHORT, LONG, RATIONAL, SBYTE, UNDEFINED, SSHORT, SLONG,
                SRATIONAL, FLOAT, DOUBLE, IFD, LONG8, SLONG8, IFD8}

\* Datatype[dt].pack, <<>> for None
DatatypePack(dt) ==
    CASE dt = BYTE -> <<"B">>      [] dt = SHORT -> <<"H">>
      [] dt = LONG -> <<"L">>      [] dt = RATIONAL -> <<"L", "L">>
      [] dt = SBYTE -> <<"b">>     [] dt = SSHORT -> <<"h">>
      [] dt = SLONG -> <<"l">>     [] dt = SRATIONAL -> <<"l", "l">>
      [] dt = FLOAT -> <<"L">>     [] dt = DOUBLE -> <<"Q">>
      [] dt = IFD -> <<"L">>       [] dt = LONG8 -> <<"Q">>
      [] dt = SLONG8 -> <<"q">>    [] dt = IFD8 -> <<"Q">>
      [] OTHER -> <<>>

DatatypeSize(dt) ==
    CASE dt \in {BYTE, ASCII, SBYTE, UNDEFINED} -> 1
      [] dt \in {SHORT, SSHORT} -> 2
      [] dt \in {LONG, SLONG, FLOAT, IFD} -> 4
      [] OTHER -> 8

(***************************************************************************)
(* The tag registry, as far as the reader and the writer consult it: which *)
(* tags hold offsets (and where their byte counts are), which hold child   *)
(* directories (and the tag set of the children), which are NDPI offsets.  *)
(* A tag set is "Tag", "EXIF", "GPS", "Interop" or "None".                 *)
(***************************************************************************)
StripOffsets == 273
StripByteCounts == 279
FreeOffsets == 288
FreeByteCounts == 289
TileOffsets == 324
TileByteCounts == 325
SubIFD == 330
GlobalParametersIFD == 400
JPEGIFOffset == 513
JPEGIFByteCount == 514
JPEGQTables == 519
JPEGDCTables == 520
JPEGACTables == 521
EXIFIFD == 34665
GPSIFD == 34853
InteroperabilityIFD == 40965

\* tag.isOffsetData(): 'bytecounts' in tag
isOffsetData(tagSet, tag) ==
    tagSet = "Tag" /\ tag \in {StripOffsets, FreeOffsets, TileOffsets, JPEGIFOffset,
                               JPEGQTables, JPEGDCTables, JPEGACTables}
\* isinstance(tag.bytecounts, str)
BytecountsIsTag(tag) == tag \in {StripOffsets, FreeOffsets, TileOffsets, JPEGIFOffset}
\* int(tagSet[tag.bytecounts]) for a named partner, tag.bytecounts for a number
Bytecounts(tag) ==
    CASE tag = StripOffsets -> StripByteCounts
      [] tag = FreeOffsets -> FreeByteCounts
      [] tag = TileOffsets -> TileByteCounts
      [] tag = JPEGIFOffset -> JPEGIFByteCount
      [] tag = JPEGQTables -> 64
      [] tag = JPEGDCTables -> 16 + 17
      [] OTHER -> 16 + 256                  \* JPEGACTables

\* tag.isIFD() of a registered tag
RegisteredIFD(tagSet, tag) ==
    tagSet = "Tag" /\ tag \in {SubIFD, GlobalParametersIFD, EXIFIFD, GPSIFD,
                               InteroperabilityIFD}
\* getattr(tag, 'tagset', None)
TagTagset(tagSet, tag) ==
    IF tagSet # "Tag" THEN "None"
    ELSE CASE tag \in {SubIFD, GlobalParametersIFD} -> "Tag"
           [] tag = EXIFIFD -> "EXIF"
           [] tag = GPSIFD -> "GPS"
           [] tag = InteroperabilityIFD -> "Interop"
           [] OTHER -> "None"
\* tagSet[tag].get('ndpi_offset')
NdpiOffset(tagSet, tag) == tagSet = "Tag" /\ tag \in {65324, 65325, 65426, 65432}

(***************************************************************************)
(* The tree of read_tiff.  A tag record (taginfo) holds 'datatype',        *)
(* 'count', 'datapos', and optionally 'offset', 'data' and 'ifds'; an      *)
(* absent 'offset' is -1, an absent 'data' has kind "none", an absent      *)
(* 'ifds' has hasifds FALSE, an absent 'datatype' is 0.  'data' is a list  *)
(* of integers (kind "list"), a str (kind "str", its characters given by   *)
(* their code points) or bytes (kind "bytes").  'ifds' is a list of lists  *)
(* of directories.  A directory (ifd) holds 'offset', 'tags' (a dictionary *)
(* by tag number, tagorder its insertion order), 'path_or_fobj' (path),    *)
(* 'size', 'bigEndian', 'bigtiff' and 'tagcount'.                          *)
(***************************************************************************)
NoData == [k |-> "none", v |-> <<>>]
ListData(v) == [k |-> "list", v |-> v]
StrData(v) == [k |-> "str", v |-> v]
BytesData(v) == [k |-> "bytes", v |-> v]

\* the smallest element of a non-empty set of integers
SetMin(S) == CHOOSE x \in S : \A y \in S : x <= y
\* sorted(S)
RECURSIVE Sorted(_)
Sorted(S) == IF S = {} THEN <<>> ELSE <<SetMin(S)>> \o Sorted(S \ {SetMin(S)})

(***************************************************************************)
(* The state of one write: the destination file, the two _WriteTracker     *)
(* objects of an IFDs-first pass, which of them datadest and ifddest are,  *)
(* the dedup record, and the exception raised ("" for none).               *)
(***************************************************************************)
IfdDest(S) == IF S.iIs = "dest" THEN S.dest ELSE S.itrk
DataDest(S) == IF S.dIs = "dest" THEN S.dest ELSE S.dtrk
SetIfdDest(S, s) == IF S.iIs = "dest" THEN [S EXCEPT !.dest = s] ELSE [S EXCEPT !.itrk = s]
SetDataDest(S, s) == IF S.dIs = "dest" THEN [S EXCEPT !.dest = s] ELSE [S EXCEPT !.dtrk = s]
Raise(S, e) == IF S.err = "" THEN [S EXCEPT !.err = e] ELSE S

MustBeBigTiffError == "MustBeBigTiffError"

\* _checkDataForNonBigtiff: does it raise
_checkDataForNonBigtiff(bigtiff, data) ==
    ~bigtiff /\ \E i \in 1..Len(data) : data[i] >= Limit32

\* the SLONG8 test of _adjustTaginfoForNonBigtiff: abs(x) < 2**31
\* (FitsSLongRange: the range of a signed 32-bit value)
FitsSLongRange(x) == -Limit31 <= x /\ x < Limit31
FitsSLong(x) == (IF x < 0 THEN -x ELSE x) < Limit31

\* _adjustTaginfoForNonBigtiff: the datatype the tag record is left with, or
\* 0 when MustBeBigTiffError is raised
_adjustTaginfoForNonBigtiff(bigtiff, datatype, data) ==
    IF ~bigtiff /\ datatype \in {LONG8, SLONG8}
    THEN IF datatype = LONG8 /\ \A i \in 1..Len(data) : data[i] < Limit32 THEN LONG
         ELSE IF datatype = SLONG8 /\ \A i \in 1..Len(data) : FitsSLong(data[i]) THEN SLONG
         ELSE 0
    ELSE datatype

\* write_tag_data on ifddest or datadest of the write state: r is what
\* write_tag_data returned
WroteTagData(S, toIfdDest, r) ==
    IF r.err # "" THEN [S |-> Raise(S, r.err), destOffsets |-> <<>>]
    ELSE [S |-> [(IF toIfdDest THEN SetIfdDest(S, r.dest) ELSE SetDataDest(S, r.dest))
                    EXCEPT !.dedup = r.dedup],
          destOffsets |-> r.destOffsets]

WriteTagData(S, toIfdDest, src, offsets, lengths, srclen) ==
    WroteTagData(S, toIfdDest,
                 write_tag_data(IF toIfdDest THEN IfdDest(S) ELSE DataDest(S), src, offsets,
                                lengths, srclen, S.dedup))

\* an insertion-ordered dictionary
EmptyOD == [order |-> <<>>, d |-> EmptyDict]
ODSet(od, k, v) == [order |-> IF k \in DOMAIN od.d THEN od.order ELSE Append(od.order, k),
                    d |-> DictSet(od.d, k, v)]

\* struct.pack(bom + pack * count, *data) with pack the pack of the datatype
\* and count = len(data) // len(pack); TypeError when pack is None
PackList(bigEndian, datatype, data) ==
    IF DatatypePack(datatype) = <<>> THEN [err |-> "TypeError", bytes |-> <<>>]
    ELSE Pack(bigEndian,
              Repeat(DatatypePack(datatype), Len(data) \div Len(DatatypePack(datatype))),
              data)

\* (WordAlignSkipped: no padding byte is written)
WordAlignSkipped(s) == s

\* if ifddest.tell() % 2: ifddest.write(b'\x00')
WordAlign(s) == IF Tell(s) % 2 = 1 THEN Write(s, <<0>>) ELSE s

(***************************************************************************)
(* write_ifd.  The loop over the sorted tags (lines 536-619) is a fold of  *)
(* WriteIfdTag over the loop state L: the write state S, the directory     *)
(* (whose tag records the loop may change in place), the directory record  *)
(* built so far, subifdPtrs and deferredData.  c holds what does not       *)
(* change during a write: bigtiff, bigEndian, ifdsFirst and the files fs.  *)
(* One turn of the loop is a chain of steps, each handing what it computed *)
(* to the next: TagKind, TagCopied, TagChecked, TagTyped, TagPacked,       *)
(* TagRecorded, TagOutOfLine, TagPointed.                                  *)
(***************************************************************************)
NewDeferred(tag, data, hasWrite, partner, datatype) ==
    [tag |-> tag, data |-> data, hasWrite |-> hasWrite, offsets |-> data,
     lengthsKey |-> partner, datatype |-> datatype, ifdoffset |-> -1, offset |-> -1]

\* lines 537-550: what the registry and the tag record say of the tag.  ti0 is
\* the tag record, data0 the data before any copy, dt1 the datatype of a tag
\* retyped as a directory or an offsets tag, lengths the byte counts of an
\* offsets tag, keyerr whether a key that is looked up is missing.
TagKind(ifd, c, tagSet, tag) ==
    LET ti0     == ifd.tags[tag]
        isifd   == RegisteredIFD(tagSet, tag) \/ ti0.datatype \in {IFD, IFD8}
        offs    == isOffsetData(tagSet, tag)
        named   == offs /\ BytecountsIsTag(tag)
        partner == Bytecounts(tag)
        data0   == IF isifd THEN Zeros(Len(ti0.ifds)) ELSE ti0.data.v
    IN [ti0 |-> ti0, isifd |-> isifd, offs |-> offs, named |-> named, partner |-> partner,
        keyerr |-> \/ ti0.datatype # 0 /\ ti0.datatype \notin DatatypeIds
                   \/ IF isifd THEN ~ti0.hasifds ELSE ti0.data.k = "none"
                   \/ named /\ (partner \notin DOMAIN ifd.tags
                                \/ ifd.tags[partner].data.k = "none")
                   \/ ~isifd /\ ~offs /\ ti0.datatype = 0,
        data0 |-> data0,
        copied |-> isifd \/ offs,
        dt1 |-> IF offs THEN (IF c.bigtiff THEN LONG8 ELSE LONG)
                ELSE IF isifd THEN (IF c.bigtiff THEN IFD8 ELSE IFD)
                ELSE ti0.datatype,
        lengths |-> IF named THEN ifd.tags[partner].data.v
                    ELSE [i \in 1..Len(data0) |-> partner],
        defer |-> named /\ c.ifdsFirst]

\* lines 608-618: an out-of-line value at tpos (seen: its bytes are already
\* in the file): the pointer is checked and packed, the value is written
TagPointed(L, c, tag, k, databytes, tagrecord, tpos, seen) ==
    IF _checkDataForNonBigtiff(c.bigtiff, <<tpos>>)
    THEN [L EXCEPT !.S = Raise(L.S, MustBeBigTiffError)]
    ELSE [S |-> IF seen THEN L.S ELSE SetIfdDest(L.S, Write(IfdDest(L.S), databytes)),
          ifd |-> L.ifd,
          ifdrecord |-> L.ifdrecord \o tagrecord
                        \o Pack(c.bigEndian, <<IF c.bigtiff THEN "Q" ELSE "L">>, <<tpos>>).bytes,
          subifdPtrs |-> IF k.isifd THEN Append(L.subifdPtrs, <<tag, tpos>>)
                         ELSE L.subifdPtrs,
          deferred |-> IF tag \in DOMAIN L.deferred.d
                       THEN [L.deferred EXCEPT !.d[tag].offset = tpos]
                       ELSE L.deferred]

\* lines 593-612: an out-of-line value after the word alignment of ifddest;
\* with dedup, h of the value is memoized and a value already written is
\* pointed to again
TagOutOfLine(L, c, tag, k, databytes, tagrecord, h) ==
    IF k.isifd \/ ~L.S.dedup.on
    THEN TagPointed(L, c, tag, k, databytes, tagrecord, Tell(IfdDest(L.S)), FALSE)
    ELSE IF h \in DOMAIN L.S.dedup.hashes
    THEN TagPointed([L EXCEPT !.S.dedup.datalog = DictSet(@, databytes, h)],
                    c, tag, k, databytes, tagrecord, L.S.dedup.hashes[h], TRUE)
    ELSE TagPointed([L EXCEPT !.S.dedup.datalog = DictSet(@, databytes, h),
                              !.S.dedup.hashes = DictSet(@, h, Tell(IfdDest(L.S)))],
                    c, tag, k, databytes, tagrecord, Tell(IfdDest(L.S)), FALSE)

\* hash(data) in dedup['hashlog']: h from the memo or from the bytes
ValueHash(dedup, databytes) ==
    IF databytes \in DOMAIN dedup.datalog THEN dedup.datalog[databytes] ELSE Digest(databytes)

\* lines 586-619: the tag record is packed; a value that fits goes into the
\* record, another goes to ifddest
TagRecorded(L, c, tag, k, databytes, tagrec) ==
    LET tagdatalen == IF c.bigtiff THEN 8 ELSE 4
        hdr        == Len(L.ifdrecord) + Len(tagrec.bytes)
    IN IF tagrec.err # "" THEN [L EXCEPT !.S = Raise(L.S, tagrec.err)]
       ELSE IF Len(databytes) <= tagdatalen
       THEN [L EXCEPT !.ifdrecord = @ \o tagrec.bytes \o databytes
                                    \o Zeros(tagdatalen - Len(databytes)),
                      !.subifdPtrs = IF k.isifd THEN Append(@, <<tag, -hdr>>) ELSE @,
                      !.deferred = IF tag \in DOMAIN L.deferred.d
                                   THEN [@ EXCEPT !.d[tag].ifdoffset = hdr] ELSE @]
       ELSE TagOutOfLine([L EXCEPT !.S = SetIfdDest(@, WordAlign(IfdDest(L.S)))],
                         c, tag, k, databytes, tagrec.bytes, ValueHash(L.S.dedup, databytes))

\* lines 576-586: the value is packed (count1 is the count of the tag record)
TagPacked(L, c, tag, k, dt2, packed) ==
    IF packed.err # "" THEN [L EXCEPT !.S = Raise(L.S, packed.err)]
    ELSE TagRecorded(L, c, tag, k, packed.bytes,
                     Pack(c.bigEndian, <<"H", "H", IF c.bigtiff THEN "Q" ELSE "L">>,
                          <<tag, dt2,
                            IF DatatypePack(dt2) # <<>>
                            THEN Len(k.data0) \div Len(DatatypePack(dt2))
                            ELSE Len(packed.bytes)>>))

\* lines 575-585: dt2 is the datatype _adjustTaginfoForNonBigtiff leaves (0:
\* it raised); the tag record of the directory keeps it
TagTyped(L, c, tag, k, data1, dt2) ==
    IF dt2 = 0 THEN [L EXCEPT !.S = Raise(L.S, MustBeBigTiffError)]
    ELSE IF ~k.isifd /\ IF DatatypePack(dt2) # <<>> THEN k.ti0.data.k # "list"
                        ELSE IF dt2 = ASCII THEN k.ti0.data.k = "list"
                        ELSE k.ti0.data.k # "bytes"
    THEN [L EXCEPT !.S = Raise(L.S, "TypeError"),
                   !.ifd.tags[tag].datatype = IF k.copied THEN @ ELSE dt2]
    ELSE TagPacked([L EXCEPT !.ifd.tags[tag].datatype = IF k.copied THEN @ ELSE dt2],
                   c, tag, k, dt2,
                   IF DatatypePack(dt2) # <<>> THEN PackList(c.bigEndian, dt2, data1)
                   ELSE [err |-> "",
                         bytes |-> IF dt2 = ASCII THEN data1 \o <<0>> ELSE data1])

\* lines 574-575: data1 is the data after the copy of the payload
TagChecked(L, c, tag, k, data1) ==
    IF L.S.err # "" THEN L
    ELSE IF k.offs /\ _checkDataForNonBigtiff(c.bigtiff, data1)
    THEN [L EXCEPT !.S = Raise(L.S, MustBeBigTiffError)]
    ELSE TagTyped(L, c, tag, k, data1,
                  IF k.copied THEN k.dt1
                  ELSE _adjustTaginfoForNonBigtiff(c.bigtiff, k.ti0.datatype, k.ti0.data.v))

\* the write state and the data a call of WriteTagData leaves in the loop
WithTagData(L, wr) == [L |-> [L EXCEPT !.S = wr.S], data |-> wr.destOffsets]

\* lines 547-573: the payload of an offsets tag is copied to ifddest, or, in
\* an IFDs-first write of a tag with a byte counts tag, put off
TagCopied(L, c, src, tag, k) ==
    IF k.keyerr THEN [L |-> [L EXCEPT !.S = Raise(L.S, "KeyError")], data |-> <<>>]
    ELSE IF k.defer
    THEN [L |-> [L EXCEPT !.deferred =
                    ODSet(ODSet(L.deferred, k.partner,
                                NewDeferred(k.partner, k.lengths, FALSE, 0, 0)),
                          tag, NewDeferred(tag, k.data0, TRUE, k.partner, k.dt1))],
          data |-> k.data0]
    ELSE IF k.offs
    THEN WithTagData(L, WriteTagData(L.S, TRUE, src, k.data0, k.lengths, L.ifd.size))
    ELSE [L |-> L, data |-> k.data0]

TagCheckedFrom(c, tag, k, r) == TagChecked(r.L, c, tag, k, r.data)
TagOfKind(L, c, src, tag, k) == TagCheckedFrom(c, tag, k, TagCopied(L, c, src, tag, k))

WriteIfdTag(L, c, tagSet, src, tag) ==
    IF L.S.err # "" THEN L ELSE TagOfKind(L, c, src, tag, TagKind(L.ifd, c, tagSet, tag))

RECURSIVE WriteIfdTags(_, _, _, _, _)
WriteIfdTags(L, c, tagSet, src, tags) ==
    IF tags = <<>> THEN L
    ELSE WriteIfdTags(WriteIfdTag(L, c, tagSet, src, Head(tags)), c, tagSet, src, Tail(tags))

\* _writeDeferredData, first loop: copy the payload of every offsets tag to
\* datadest and keep the new offsets in its entry.
DeferredWritten(L, key, r) == [L EXCEPT !.S = r.S, !.deferred.d[key].data = r.destOffsets]

RECURSIVE DeferredCopy(_, _, _, _)
DeferredCopy(L, src, keys, i) ==
    IF i > Len(keys) \/ L.S.err # "" THEN L
    ELSE LET dd == L.deferred.d[keys[i]]
         IN IF ~dd.hasWrite THEN DeferredCopy(L, src, keys, i + 1)
            ELSE DeferredCopy(
                     DeferredWritten(L, keys[i],
                                     WriteTagData(L.S, FALSE, src, dd.offsets,
                                                  L.deferred.d[dd.lengthsKey].data,
                                                  L.ifd.size)),
                     src, keys, i + 1)

\* _writeDeferredData, second loop: pack the data of every entry and put it
\* into the directory record or at its offset in dest (ifddest).
DeferredPut(L, dd, packed) ==
    IF packed.err # "" THEN [L EXCEPT !.S = Raise(L.S, packed.err)]
    ELSE IF dd.ifdoffset >= 0
    THEN [L EXCEPT !.ifdrecord =
             Slice(L.ifdrecord, 0, dd.ifdoffset) \o packed.bytes
             \o Slice(L.ifdrecord, dd.ifdoffset + Len(packed.bytes), Len(L.ifdrecord))]
    ELSE IF dd.offset < 0 THEN [L EXCEPT !.S = Raise(L.S, "KeyError")]
    ELSE [L EXCEPT !.S = SetIfdDest(L.S,
             SeekSet(Write(SeekSet(IfdDest(L.S), dd.offset), packed.bytes),
                     Tell(IfdDest(L.S))))]

DeferredPatchOne(L, c, dd) ==
    IF _checkDataForNonBigtiff(c.bigtiff, dd.data)
    THEN [L EXCEPT !.S = Raise(L.S, MustBeBigTiffError)]
    ELSE DeferredPut(L, dd,
                     PackList(c.bigEndian,
                              IF dd.hasWrite THEN dd.datatype
                              ELSE L.ifd.tags[dd.tag].datatype,
                              dd.data))

RECURSIVE DeferredPatch(_, _, _, _)
DeferredPatch(L, c, keys, i) ==
    IF i > Len(keys) \/ L.S.err # "" THEN L
    ELSE DeferredPatch(DeferredPatchOne(L, c, L.deferred.d[keys[i]]), c, keys, i + 1)

_writeDeferredData(L, c, src) ==
    DeferredPatch(DeferredCopy(L, src, L.deferred.order, 1), c, L.deferred.order, 1)

RECURSIVE write_ifd(_, _, _, _, _)
RECURSIVE write_sub_ifds(_, _, _, _, _, _)
RECURSIVE WriteIfdChain(_, _, _, _, _, _)
RECURSIVE WriteSubifdList(_, _, _, _, _, _)

\* lines 631-637: id3 is ifddest after the directory record; the pointer to
\* the next directory follows it as 0 and the child directories are written
WithNextPtr(sub, nextifdPtr) == [S |-> sub.S, ifd |-> sub.ifd, nextifdPtr |-> nextifdPtr]
IfdWritten(L, c, tagSet, at, id3) ==
    WithNextPtr(write_sub_ifds(
                    SetIfdDest(L.S, SeekEnd(Write(id3, PackBytes(c.bigEndian,
                                                                 <<IF c.bigtiff THEN "Q" ELSE "L">>,
                                                                 <<0>>)))),
                    c, L.ifd, at, L.subifdPtrs, tagSet),
                Tell(id3))

\* lines 627-630: the pointer at ifdPtr is set to the directory (at), then
\* the directory record is written; id1 is ifddest at the directory
IfdLinked(L, c, ifdPtr, ifdpos, tagSet, id1, at, ptr) ==
    IF ptr.err # ""
    THEN [S |-> Raise(SetIfdDest(L.S, SeekSet(id1, ifdPtr)), ptr.err), ifd |-> L.ifd,
          nextifdPtr |-> 0]
    ELSE IfdWritten(L, c, tagSet, at,
                    Write(IF c.ifdsFirst
                          THEN SeekSet(Write(SeekSet(id1, ifdPtr), ptr.bytes), ifdpos)
                          ELSE SeekEnd(Write(SeekSet(id1, ifdPtr), ptr.bytes)),
                          L.ifdrecord))

IfdPlaced(L, c, ifdPtr, ifdpos, tagSet, id1, at) ==
    IfdLinked(L, c, ifdPtr, ifdpos, tagSet, id1, at,
              Pack(c.bigEndian, <<IF c.bigtiff THEN "Q" ELSE "L">>, <<at>>))

\* lines 620-626: L is the loop state after the tags and the deferred data
IfdTagsWritten(L, c, ifdPtr, ifdpos, tagSet) ==
    IF L.S.err # "" THEN [S |-> L.S, ifd |-> L.ifd, nextifdPtr |-> 0]
    ELSE IF _checkDataForNonBigtiff(c.bigtiff, <<Tell(IfdDest(L.S)), Tell(DataDest(L.S))>>)
    THEN [S |-> Raise(L.S, MustBeBigTiffError), ifd |-> L.ifd, nextifdPtr |-> 0]
    ELSE IfdPlaced(L, c, ifdPtr, ifdpos, tagSet, WordAlign(IfdDest(L.S)),
                   IF c.ifdsFirst THEN ifdpos ELSE Tell(WordAlign(IfdDest(L.S))))

\* lines 530-535: S0 is the write state after the room of an IFDs-first
\* directory is taken, head the packed number of tags
IfdStarted(S0, c, ifd, ifdPtr, ifdpos, tagSet, head, src) ==
    IfdTagsWritten(
        _writeDeferredData(
            WriteIfdTags([S |-> S0, ifd |-> ifd, ifdrecord |-> head, subifdPtrs |-> <<>>,
                          deferred |-> EmptyOD],
                         c, tagSet, src, Sorted(DOMAIN ifd.tags)),
            c, src),
        c, ifdPtr, ifdpos, tagSet)

\* write_ifd: returns the write state, the directory as the call leaves it,
\* and nextifdPtr.
write_ifd(S, c, ifd, ifdPtr, tagSet) ==
    IF S.err # "" THEN [S |-> S, ifd |-> ifd, nextifdPtr |-> 0] ELSE
    LET ntags  == Cardinality(DOMAIN ifd.tags)
        head   == Pack(c.bigEndian, <<IF c.bigtiff THEN "Q" ELSE "H">>, <<ntags>>)
        ifdlen == Len(head.bytes) + (IF c.bigtiff THEN 20 ELSE 12) * ntags
                  + (IF c.bigtiff THEN 8 ELSE 4)
        S0     == IF c.ifdsFirst THEN SetIfdDest(S, Write(IfdDest(S), Zeros(ifdlen)))
                  ELSE S
    IN IF head.err # "" THEN [S |-> Raise(S, head.err), ifd |-> ifd, nextifdPtr |-> 0]
       ELSE IF ifd.path \notin DOMAIN c.fs
       THEN [S |-> Raise(S0, "FileNotFoundError"), ifd |-> ifd, nextifdPtr |-> 0]
       ELSE IfdStarted(S0, c, ifd, ifdPtr, Tell(IfdDest(S)), tagSet, head.bytes,
                       [name |-> ifd.path, buf |-> c.fs[ifd.path]])

\* for ifdInSubifd in subifd: one chain of directories, each linked from the
\* pointer the one before it returned
IfdChainWritten(c, chain, i, tagSet, r) ==
    WriteIfdChain(r.S, c, [chain EXCEPT ![i] = r.ifd], i + 1, r.nextifdPtr, tagSet)
WriteIfdChain(S, c, chain, i, ptr, tagSet) ==
    IF i > Len(chain) \/ S.err # "" THEN [S |-> S, chain |-> chain]
    ELSE IfdChainWritten(c, chain, i, tagSet, write_ifd(S, c, chain[i], ptr, tagSet))

\* for subifd in ifd['tags'][int(tag)]['ifds']: the chains of one tag
SubifdWritten(c, ifds, k, subifdPtr, tagSet, r) ==
    WriteSubifdList(r.S, c, [ifds EXCEPT ![k] = r.chain], k + 1,
                    subifdPtr + (IF c.bigtiff THEN 8 ELSE 4), tagSet)
WriteSubifdList(S, c, ifds, k, subifdPtr, tagSet) ==
    IF k > Len(ifds) \/ S.err # "" THEN [S |-> S, ifds |-> ifds]
    ELSE SubifdWritten(c, ifds, k, subifdPtr, tagSet,
                       WriteIfdChain(S, c, ifds[k], 1, subifdPtr, tagSet))

\* write_sub_ifds: tagSet is the tag set of the parent directory, in which
\* the tags of subifdPtrs were looked up.
SubifdsWritten(c, ifd, parentPos, subifdPtrs, tagSet, tag, r) ==
    write_sub_ifds(r.S, c, [ifd EXCEPT !.tags[tag].ifds = r.ifds], parentPos,
                   Tail(subifdPtrs), tagSet)
write_sub_ifds(S, c, ifd, parentPos, subifdPtrs, tagSet) ==
    IF subifdPtrs = <<>> \/ S.err # "" THEN [S |-> S, ifd |-> ifd]
    ELSE LET tag       == Head(subifdPtrs)[1]
             p         == Head(subifdPtrs)[2]
             subifdPtr == IF p < 0 THEN parentPos + (-p) ELSE p
         IN SubifdsWritten(c, ifd, parentPos, subifdPtrs, tagSet, tag,
                           WriteSubifdList(S, c, ifd.tags[tag].ifds, 1, subifdPtr,
                                           TagTagset(tagSet, tag)))

(***************************************************************************)
(* write_tiff on an open destination (lines 330-360).                      *)
(***************************************************************************)
Header(bigEndian, bigtiff) ==
    (IF bigEndian THEN <<77, 77>> ELSE <<73, 73>>)
    \o (IF bigtiff THEN PackBytes(bigEndian, <<"H", "H", "H", "Q">>, <<43, 8, 0, 0>>)
        ELSE PackBytes(bigEndian, <<"H", "L">>, <<42, 0>>))

\* for ifd in ifds: ifdPtr = write_ifd(...)
RECURSIVE WriteIfds(_, _, _, _, _)
WriteIfdsNext(c, ifds, i, r) ==
    WriteIfds(r.S, c, [ifds EXCEPT ![i] = r.ifd], i + 1, r.nextifdPtr)
WriteIfds(S, c, ifds, i, ifdPtr) ==
    IF i > Len(ifds) \/ S.err # "" THEN [S |-> S, ifds |-> ifds]
    ELSE WriteIfdsNext(c, ifds, i, write_ifd(S, c, ifds[i], ifdPtr, "Tag"))

\* _ifdsPass: the write state at the start of pass n (S is the state the
\* pass before left; n = 0 is the single pass of a data-first write)
_ifdsPass(S, n) ==
    CASE n = 0 -> [S EXCEPT !.dIs = "dest", !.iIs = "dest"]
      [] n = 1 -> [S EXCEPT !.dIs = "tracker", !.iIs = "tracker",
                            !.itrk = WriteTracker(0), !.dtrk = WriteTracker(Tell(S.dest))]
      [] n = 2 -> [S EXCEPT !.dIs = "tracker", !.iIs = "dest",
                            !.dtrk = WriteTracker(Tell(S.dest) + Tell(S.itrk))]
      [] OTHER -> [S EXCEPT !.dIs = "dest", !.iIs = "tracker", !.itrk = WriteTracker(0)]

\* One pass: the dedup record is renewed (lines 344-348), then every
\* directory is written.
WritePass(S, c, ifds, n, origifdPtr) ==
    LET S1 == _ifdsPass(S, n)
        S2 == IF S1.dedup.on THEN [S1 EXCEPT !.dedup = NewDedup(S1.dedup)] ELSE S1
    IN WriteIfds(S2, c, ifds, 1, origifdPtr)

\* for ifdsPass in range(1, 4): r is what the pass before left
RECURSIVE WritePasses(_, _, _, _)
WritePasses(r, c, n, origifdPtr) ==
    IF r.S.err # "" \/ n > 3 THEN r
    ELSE WritePasses(WritePass(r.S, c, r.ifds, n, origifdPtr), c, n + 1, origifdPtr)

\* The retry of line 357: write_tiff again on the truncated destination
\* with bigtiff forced on.  (RetryBigtiffUnforced: the retry with the
\* bigtiff of the failed attempt.)
RetryBigtiffUnforced(bigtiff) == bigtiff
RetryBigtiff(bigtiff) == TRUE

\* Returns the destination, the directories as the write leaves them, the
\* exception that leaves write_tiff ("" for none), the number of attempts,
\* the bigtiff of the last attempt and, for each retry, the length the
\* destination had when MustBeBigTiffError was caught and the destination as
\* the retry found it.
RECURSIVE WriteTiffOpen(_, _, _, _, _, _, _, _)

\* lines 353-360: r is what the passes left, again the destination after
\* dest.seek(0); dest.truncate(0)
WithRetried(retry, len, again) ==
    [retry EXCEPT !.retried = <<[len |-> len, dest |-> again]>> \o @]
WriteTiffDone(r, bigEndian, bigtiff, ifdsFirst, dedup, fs, attempts) ==
    IF r.S.err = MustBeBigTiffError /\ attempts < MaxAttempts
    THEN WithRetried(WriteTiffOpen(Truncate(SeekSet(r.S.dest, 0), 0), r.ifds, bigEndian,
                                   RetryBigtiff(bigtiff), ifdsFirst, dedup, fs, attempts + 1),
                     r.S.dest.len, Truncate(SeekSet(r.S.dest, 0), 0))
    ELSE [dest |-> r.S.dest, ifds |-> r.ifds, err |-> r.S.err, attempts |-> attempts,
          bigtiff |-> bigtiff, retried |-> <<>>, reused |-> r.S.dedup.reused]

\* lines 331-341: the write state after the header
WriteStart(dest, bigEndian, bigtiff, dedup) ==
    [dest |-> Write(dest, Header(bigEndian, bigtiff)), dtrk |-> WriteTracker(0),
     itrk |-> WriteTracker(0), dIs |-> "dest", iIs |-> "dest",
     dedup |-> IF dedup THEN NewDedup(NoDedup) ELSE NoDedup, err |-> ""]

WriteTiffOpen(dest, ifds, bigEndian, bigtiff, ifdsFirst, dedup, fs, attempts) ==
    LET c      == [bigtiff |-> bigtiff, bigEndian |-> bigEndian, ifdsFirst |-> ifdsFirst,
                   fs |-> fs]
        ifdPtr == Len(Header(bigEndian, bigtiff)) - (IF bigtiff THEN 8 ELSE 4)
    IN WriteTiffDone(
           IF ifdsFirst
           THEN WritePasses([S |-> WriteStart(dest, bigEndian, bigtiff, dedup), ifds |-> ifds],
                            c, 1, ifdPtr)
           ELSE WritePass(WriteStart(dest, bigEndian, bigtiff, dedup), c, ifds, 0, ifdPtr),
           bigEndian, bigtiff, ifdsFirst, dedup, fs, attempts)

(***************************************************************************)
(* write_tiff on a path.  The file system fs is a dictionary from the      *)
(* paths that exist to their bytes.                                        *)
(***************************************************************************)
\* the name tempfile.NamedTemporaryFile(prefix=basename, dir=dirname) gives:
\* a sibling of path that does not exist
TempPath(path) == path \o ".tmp"

\* lines 322-325: is 'File already exists' raised
\* (ExistsNeverChecked: the test left out)
ExistsNeverChecked(fs, path, allowExisting) == FALSE
RaisesFileExists(fs, path, allowExisting) == path \in DOMAIN fs /\ ~allowExisting

\* lines 326-328: the path that is opened for writing
\* (WritePathInPlace: the destination itself)
WritePathInPlace(fs, path) == path
WritePath(fs, path) == IF path \in DOMAIN fs THEN TempPath(path) ELSE path

\* os.unlink(path)
Unlink(fs, path) == Restrict(fs, (DOMAIN fs) \ {path})

\* lines 361-372: fs2 is the file system with the written file at wpath; a
\* temporary file is removed, after a write without error its bytes are
\* copied to path
CopyBack(fs2, path, wpath, err) ==
    IF wpath = path THEN fs2
    ELSE IF err # "" THEN Unlink(fs2, wpath)
    ELSE Unlink(DictSet(fs2, path, fs2[wpath]), wpath)

WriteTiffClosed(fs1, path, wpath, r) ==
    [fs |-> CopyBack(DictSet(fs1, wpath, r.dest.buf), path, wpath, r.err),
     ifds |-> r.ifds, err |-> r.err, attempts |-> r.attempts,
     bigtiff |-> r.bigtiff, retried |-> r.retried, reused |-> r.reused,
     wpath |-> wpath]

\* lines 329-360: fs1 is the file system after open(path, 'wb'), which
\* creates the file or empties it
WriteTiffAt(fs1, ifds, path, wpath, bigEndian, bigtiff, ifdsFirst, dedup) ==
    WriteTiffClosed(fs1, path, wpath,
                    WriteTiffOpen(FileStream(<<>>, 0), ifds, bigEndian, bigtiff, ifdsFirst,
                                  dedup, fs1, 1))

write_tiff(fs, ifds, path, bigEndian, bigtiff, allowExisting, ifdsFirst, dedup) ==
    IF RaisesFileExists(fs, path, allowExisting)
    THEN [fs |-> fs, ifds |-> ifds, err |-> "File already exists", attempts |-> 0,
          bigtiff |-> bigtiff, retried |-> <<>>, reused |-> 0, wpath |-> path]
    ELSE WriteTiffAt(DictSet(fs, WritePath(fs, path), <<>>), ifds, path, WritePath(fs, path),
                     bigEndian, bigtiff, ifdsFirst, dedup)

(***************************************************************************)
(* read_tiff.  The reader state R holds info['ndpi'], the exception raised *)
(* ("" for none) and the number of directories that may still be read      *)
(* before the model stops a read that does not end.                        *)
(***************************************************************************)
TagInfo(datatype, count, datapos) ==
    [datatype |-> datatype, count |-> count, datapos |-> datapos,
     hasoffset |-> FALSE, offset |-> 0, data |-> NoData, hasifds |-> FALSE, ifds |-> <<>>]

\* rawdata.rstrip(b'\x00')
RECURSIVE RStripZeros(_)
RStripZeros(b) ==
    IF b # <<>> /\ b[Len(b)] = 0 THEN RStripZeros(SubSeq(b, 1, Len(b) - 1)) ELSE b

\* does bytes.decode() succeed.  The files of the model hold no multi-byte
\* UTF-8 sequence: a byte above 127 is one that no UTF-8 text contains.
Decodes(b) == \A i \in 1..Len(b) : b[i] < 128

\* (NdpiWidenKeeps: the stored offset is taken as it is)
NdpiWidenKeeps(ifdOffset, data) == data

\* line 203: ifdOffset - ((ifdOffset - data) & 0xFFFFFFFF) if data < ifdOffset
\* else data
NdpiWiden(ifdOffset, data) ==
    IF data < ifdOffset THEN ifdOffset - ((ifdOffset - data) % Limit32) ELSE data

\* one entry of a directory (lines 183-206): f is (tag, datatype, count) as
\* unpacked, rawdata the bytes of the fourth field, pos the position of the
\* entry; data is used only as the offset of a value that is not in the entry
ReadEntry(acc, cx, filelen, ifdOffset, tagSet, pos, f, rawdata) ==
    LET tag      == f[1]
        datatype == f[2]
        count    == f[3]
        data     == UnpackOne(cx.bigEndian, IF cx.bigtiff THEN "Q" ELSE "L", rawdata)
        ndpi     == NdpiOffset(tagSet, tag) /\ filelen >= Limit32
        outline  == count * DatatypeSize(datatype) > (IF cx.bigtiff THEN 8 ELSE 4)
        ti0      == TagInfo(datatype, count, pos + (IF cx.bigtiff THEN 12 ELSE 8))
    IN IF datatype \notin DatatypeIds THEN acc
       ELSE [acc EXCEPT
               !.tags = DictSet(@, tag,
                                IF outline
                                THEN [ti0 EXCEPT !.hasoffset = TRUE,
                                                 !.offset = IF ndpi
                                                            THEN NdpiWiden(ifdOffset, data)
                                                            ELSE data]
                                ELSE ti0),
               !.tagorder = IF tag \in DOMAIN acc.tags THEN @ ELSE Append(@, tag),
               !.ndpi = @ \/ (outline /\ ndpi)]

\* the entries of a directory (lines 181-206): returns tags, tagorder, the
\* position after the last entry, ndpi and the exception raised
RECURSIVE ReadEntries(_, _, _, _, _, _, _)
ReadEntries(buf, cx, ifdOffset, tagSet, pos, n, acc) ==
    IF n = 0 \/ acc.err # "" THEN [acc EXCEPT !.pos = pos]
    ELSE IF Len(Slice(buf, pos, pos + (IF cx.bigtiff THEN 20 ELSE 12)))
            < (IF cx.bigtiff THEN 20 ELSE 12)
    THEN [acc EXCEPT !.err = "struct.error", !.pos = pos]
    ELSE ReadEntries(buf, cx, ifdOffset, tagSet, pos + (IF cx.bigtiff THEN 20 ELSE 12), n - 1,
                     ReadEntry(acc, cx, Len(buf), ifdOffset, tagSet, pos,
                               Unpack(cx.bigEndian,
                                      IF cx.bigtiff THEN <<"H", "H", "Q">>
                                      ELSE <<"H", "H", "L">>,
                                      Slice(buf, pos, pos + (IF cx.bigtiff THEN 12 ELSE 8))),
                               Slice(buf, pos + (IF cx.bigtiff THEN 12 ELSE 8),
                                     pos + (IF cx.bigtiff THEN 20 ELSE 12))))

\* the 'data' of a tag record from its raw bytes (lines 249-262)
TagData(bigEndian, datatype, count, rawdata) ==
    IF DatatypePack(datatype) # <<>>
    THEN ListData(Unpack(bigEndian, Repeat(DatatypePack(datatype), count), rawdata))
    ELSE IF datatype = ASCII /\ Decodes(RStripZeros(rawdata))
    THEN StrData(RStripZeros(rawdata))
    ELSE BytesData(rawdata)

RECURSIVE read_ifd(_, _, _, _, _)
RECURSIVE read_ifd_tag_data(_, _, _, _, _, _)
RECURSIVE ReadIfdChain(_, _, _, _, _, _, _)
RECURSIVE ReadSubifds(_, _, _, _, _, _, _)

\* a read_ifd that appended no directory
NoIfd(R) == [R |-> R, has |-> FALSE, ifd |-> <<>>, nextifd |-> 0]

\* lines 211-213: t is what read_ifd_tag_data returned
IfdRead(nextifd, t) ==
    IF t.R.err # "" THEN NoIfd(t.R)
    ELSE [R |-> t.R, has |-> TRUE, ifd |-> t.ifd, nextifd |-> nextifd]

\* lines 207-213: e is what the loop over the entries left
IfdEntriesRead(buf, cx, R, ifdOffset, tagSet, tagcount, e) ==
    LET ptrlen  == IF cx.bigtiff \/ e.ndpi THEN 8 ELSE 4
        rawnext == Slice(buf, e.pos, e.pos + ptrlen)
    IN IF e.err # "" THEN NoIfd([R EXCEPT !.err = e.err])
       ELSE IF Len(rawnext) < ptrlen THEN NoIfd([R EXCEPT !.err = "struct.error"])
       ELSE IfdRead(UnpackOne(cx.bigEndian, IF ptrlen = 8 THEN "Q" ELSE "L", rawnext),
                    read_ifd_tag_data(buf, cx, [R EXCEPT !.ndpi = e.ndpi, !.fuel = @ - 1],
                                      [offset |-> ifdOffset, tags |-> e.tags,
                                       tagorder |-> e.tagorder, path |-> cx.path,
                                       size |-> Len(buf), bigEndian |-> cx.bigEndian,
                                       bigtiff |-> cx.bigtiff, tagcount |-> tagcount],
                                      tagSet, 1))

IfdCounted(buf, cx, R, ifdOffset, tagSet, cntlen, tagcount) ==
    IfdEntriesRead(buf, cx, R, ifdOffset, tagSet, tagcount,
                   ReadEntries(buf, cx, ifdOffset, tagSet, ifdOffset + cntlen, tagcount,
                               [tags |-> EmptyDict, tagorder |-> <<>>, pos |-> 0,
                                ndpi |-> R.ndpi, err |-> ""]))

\* read_ifd: returns the reader state, whether a directory was appended, the
\* directory, and nextifd (0 for None)
read_ifd(buf, cx, R, ifdOffset, tagSet) ==
    IF R.err # "" THEN NoIfd(R)
    ELSE IF R.fuel = 0 THEN NoIfd([R EXCEPT !.err = "unending"])
    ELSE IF ~check_offset(Len(buf), ifdOffset, IF cx.bigtiff THEN 16 ELSE 6) THEN NoIfd(R)
    ELSE IfdCounted(buf, cx, R, ifdOffset, tagSet, IF cx.bigtiff THEN 8 ELSE 2,
                    UnpackOne(cx.bigEndian, IF cx.bigtiff THEN "Q" ELSE "H",
                              Slice(buf, ifdOffset, ifdOffset + (IF cx.bigtiff THEN 8 ELSE 2))))

\* lines 264-276: sub is what the reads of the child directories left
TagIfdsRead(buf, cx, ifd, tagSet, i, tag, data, sub) ==
    read_ifd_tag_data(buf, cx, sub.R,
                      [ifd EXCEPT !.tags[tag].data = data, !.tags[tag].hasifds = TRUE,
                                  !.tags[tag].ifds = sub.ifds],
                      tagSet, i + 1)

\* lines 249-276: data is the 'data' of the tag
TagDataRead(buf, cx, R, ifd, tagSet, i, tag, data) ==
    IF RegisteredIFD(tagSet, tag) \/ ifd.tags[tag].datatype \in {IFD, IFD8}
    THEN IF data.k = "str" /\ data.v # <<>>
         THEN [R |-> [R EXCEPT !.err = "ValueError"], ifd |-> ifd]
         ELSE TagIfdsRead(buf, cx, ifd, tagSet, i, tag, data,
                          ReadSubifds(buf, cx, R, data.v, 1, TagTagset(tagSet, tag), <<>>))
    ELSE read_ifd_tag_data(buf, cx, R, [ifd EXCEPT !.tags[tag].data = data], tagSet, i + 1)

\* read_ifd_tag_data from the i-th tag of the directory on: returns the
\* reader state and the directory
read_ifd_tag_data(buf, cx, R, ifd, tagSet, i) ==
    IF i > Len(ifd.tagorder) \/ R.err # "" THEN [R |-> R, ifd |-> ifd]
    ELSE
    LET tag      == ifd.tagorder[i]
        taginfo  == ifd.tags[tag]
        typesize == DatatypeSize(taginfo.datatype)
        pos      == IF taginfo.hasoffset THEN taginfo.offset ELSE taginfo.datapos
    IN IF ~check_offset(Len(buf), pos, taginfo.count * typesize) THEN [R |-> R, ifd |-> ifd]
       ELSE TagDataRead(buf, cx, R, ifd, tagSet, i, tag,
                        TagData(cx.bigEndian, taginfo.datatype, taginfo.count,
                                Slice(buf, pos, pos + taginfo.count * typesize)))

\* while nextifd: nextifd = read_ifd(...), with the break of lines 274-276
\* when stopAt (the next sub-IFD offset, 0 for none) is met
IfdChainNext(buf, cx, tagSet, stopAt, acc, r) ==
    IF stopAt.has /\ r.nextifd = stopAt.v
    THEN [R |-> r.R, ifds |-> IF r.has THEN Append(acc, r.ifd) ELSE acc]
    ELSE ReadIfdChain(buf, cx, r.R, r.nextifd, tagSet, stopAt,
                      IF r.has THEN Append(acc, r.ifd) ELSE acc)

ReadIfdChain(buf, cx, R, nextifd, tagSet, stopAt, acc) ==
    IF nextifd = 0 \/ R.err # "" THEN [R |-> R, ifds |-> acc]
    ELSE IfdChainNext(buf, cx, tagSet, stopAt, acc, read_ifd(buf, cx, R, nextifd, tagSet))

\* for subidx, subifdOffset in enumerate(subifdOffsets)
SubifdRead(buf, cx, subifdOffsets, k, tagSet, acc, r) ==
    ReadSubifds(buf, cx, r.R, subifdOffsets, k + 1, tagSet, Append(acc, r.ifds))
ReadSubifds(buf, cx, R, subifdOffsets, k, tagSet, acc) ==
    IF k > Len(subifdOffsets) \/ R.err # "" THEN [R |-> R, ifds |-> acc]
    ELSE SubifdRead(buf, cx, subifdOffsets, k, tagSet, acc,
                    ReadIfdChain(buf, cx, R, subifdOffsets[k], tagSet,
                                 IF k < Len(subifdOffsets)
                                 THEN [has |-> TRUE, v |-> subifdOffsets[k + 1]]
                                 ELSE [has |-> FALSE, v |-> 0],
                                 <<>>))

\* the info read_tiff returns (err: the exception it raised instead)
Info(path, buf, err, ifds, firstifd, ndpi) ==
    [ifds |-> ifds, path |-> path, size |-> Len(buf), header |-> Slice(buf, 0, 4),
     bigEndian |-> Slice(buf, 0, 2) = <<77, 77>>,
     bigtiff |-> Slice(buf, 0, 4) \in {<<73, 73, 43, 0>>, <<77, 77, 0, 43>>},
     firstifd |-> firstifd, ndpi |-> ndpi, err |-> err]

\* lines 113-119: r is what the reads of the directories left
TiffIfdsRead(path, buf, firstifd, r) ==
    IF r.R.err # "" THEN Info(path, buf, r.R.err, <<>>, firstifd, FALSE)
    ELSE Info(path, buf, "", r.ifds, firstifd, r.R.ndpi)

\* lines 99-119: h is the rest of the header as unpacked
TiffHeaderRead(path, buf, cx, h) ==
    IF cx.bigtiff /\ (h[1] # 8 \/ h[2] # 0)
    THEN Info(path, buf, "Unexpected offset size", <<>>, 0, FALSE)
    ELSE TiffIfdsRead(path, buf, h[Len(h)],
                      ReadIfdChain(buf, cx, [ndpi |-> FALSE, err |-> "", fuel |-> MaxIfdReads],
                                   h[Len(h)], "Tag", [has |-> FALSE, v |-> 0], <<>>))

\* lines 94-117 of read_tiff: the file at path is opened and read
ReadTiffAt(fs, path) ==
    IF path \notin DOMAIN fs
    THEN [ifds |-> <<>>, path |-> path, size |-> 0, header |-> <<>>, bigEndian |-> FALSE,
          bigtiff |-> FALSE, firstifd |-> 0, ndpi |-> FALSE, err |-> "FileNotFoundError"]
    ELSE
    LET buf       == fs[path]
        header    == Slice(buf, 0, 4)
        bigEndian == Slice(header, 0, 2) = <<77, 77>>
        bigtiff   == header \in {<<73, 73, 43, 0>>, <<77, 77, 0, 43>>}
        rest      == Slice(buf, 4, IF bigtiff THEN 16 ELSE 8)
    IN IF header \notin {<<73, 73, 42, 0>>, <<77, 77, 0, 42>>,
                         <<73, 73, 43, 0>>, <<77, 77, 0, 43>>}
       THEN Info(path, buf, "Not a known tiff header", <<>>, 0, FALSE)
       ELSE IF Len(rest) < (IF bigtiff THEN 12 ELSE 4)
       THEN Info(path, buf, "struct.error", <<>>, 0, FALSE)
       ELSE TiffHeaderRead(path, buf,
                           [bigEndian |-> bigEndian, bigtiff |-> bigtiff, path |-> path],
                           Unpack(bigEndian, IF bigtiff THEN <<"H", "H", "Q">> ELSE <<"L">>,
                                  rest))

(***************************************************************************)
(* The path of read_tiff: <file>[,<IFD #>[,[<tag>:]<SubIFD #>[,<IFD #>...]]]*)
(* A string is split and a number is parsed by looking for the parts whose  *)
(* join, the number whose decimal form, is the string; the parts are looked *)
(* for among the words the paths of the model are made of.                  *)
(***************************************************************************)
\* sep.join(parts)
RECURSIVE Join(_, _)
Join(parts, sep) ==
    IF parts = <<>> THEN ""
    ELSE IF Len(parts) = 1 THEN parts[1]
    ELSE parts[1] \o sep \o Join(Tail(parts), sep)

\* the paths of the model that hold a ',', as their parts between the commas
CommaPaths ==
    {<<"s.tif", "0">>, <<"s.tif", "1">>, <<"s.tif", "2">>, <<"s.tif", "-1">>,
     <<"s.tif", "x">>, <<"none.tif", "0">>, <<"a.tif", "0">>, <<"a.tif", "0", "0">>,
     <<"s.tif", "0", "0">>, <<"s.tif", "0", "1">>, <<"s.tif", "0", "2">>,
     <<"s.tif", "0", "-1">>, <<"s.tif", "1", "0">>, <<"s.tif", "1", "1">>,
     <<"s.tif", "1", "SubIFD:0">>, <<"s.tif", "1", "subifd:0">>, <<"s.tif", "1", "330:0">>,
     <<"s.tif", "1", "0x14a:0">>, <<"s.tif", "1", "SubIFD:1">>, <<"s.tif", "1", "256:0">>,
     <<"s.tif", "1", "EXIFIFD:0">>, <<"s.tif", "1", "NoTag:0">>,
     <<"s.tif", "1", "0", "0">>, <<"s.tif", "1", "0", "1">>, <<"s.tif", "1", "SubIFD:0", "1">>,
     <<"s.tif", "1", "0x14a:0", "1">>, <<"s.tif", "1", "330:0", "2">>,
     <<"s.tif", "1", "0", "3">>, <<"s.tif", "1", "0", "1", "0">>,
     <<"p", "q.tif">>, <<"p", "q.tif", "0">>}
\* the words of the model that hold a ':', as the parts before and after it
ColonWords ==
    {<<"SubIFD", "0">>, <<"SubIFD", "1">>, <<"subifd", "0">>, <<"330", "0">>,
     <<"0x14a", "0">>, <<"256", "0">>, <<"EXIFIFD", "0">>, <<"NoTag", "0">>,
     <<"23456", "SHORT">>, <<"23456", "short">>, <<"23456", "3">>, <<"23456", "LONG">>,
     <<"23456", "SLONG">>, <<"23456", "BYTE">>, <<"23456", "ASCII">>, <<"23456", "DOUBLE">>,
     <<"23456", "RATIONAL">>, <<"23456", "BADTYPE">>, <<"Orientation", "BYTE">>,
     <<"Orientation", "LONG">>}

\* str(path).split(',')
SplitComma(path) ==
    IF \E parts \in CommaPaths : Join(parts, ",") = path
    THEN CHOOSE parts \in CommaPaths : Join(parts, ",") = path
    ELSE <<path>>
\* ':' in word, word.split(':', 1)
HasColon(word) == \E parts \in ColonWords : Join(parts, ":") = word
SplitColon(word) == CHOOSE parts \in ColonWords : Join(parts, ":") = word

\* int(word): the number whose decimal form is the word (ok: no ValueError)
IntWords == (-3..9) \cup {254, 256, 257, 270, 274, SubIFD, 23456, EXIFIFD}
ParseInt(word) ==
    IF \E n \in IntWords : ToString(n) = word
    THEN [ok |-> TRUE, v |-> CHOOSE n \in IntWords : ToString(n) = word]
    ELSE [ok |-> FALSE, v |-> 0]
\* int(word, 0): a decimal or a hexadecimal literal
HexWords == ("0x14a" :> 330) @@ ("0x10e" :> 270) @@ ("0x10E" :> 270) @@ ("0xfe" :> 254)
            @@ ("0x101" :> 257) @@ ("0x4" :> 4)
ParseInt0(word) ==
    IF word \in DOMAIN HexWords THEN [ok |-> TRUE, v |-> HexWords[word]] ELSE ParseInt(word)

PyIndexOneBased(n, i) == IF 1 <= i /\ i <= n THEN i ELSE 0
\* the index of seq[i] of Python in a list of n elements, counted from 1
\* (a negative i counts from the end); 0 for an IndexError
PyIndex(n, i) ==
    IF 0 <= i /\ i < n THEN i + 1
    ELSE IF i < 0 /\ -i <= n THEN n + i + 1
    ELSE 0

\* key.upper() for the names of the model
UpperWords ==
    ("SubIFD" :> "SUBIFD") @@ ("subifd" :> "SUBIFD") @@ ("short" :> "SHORT")
    @@ ("Orientation" :> "ORIENTATION") @@ ("ImageWidth" :> "IMAGEWIDTH")
    @@ ("imagewidth" :> "IMAGEWIDTH") @@ ("ImageDescription" :> "IMAGEDESCRIPTION")
    @@ ("imagedescription" :> "IMAGEDESCRIPTION") @@ ("Different" :> "DIFFERENT")
    @@ ("NewSubfileType" :> "NEWSUBFILETYPE") @@ ("newsubfiletype" :> "NEWSUBFILETYPE")
    @@ ("SubfileType" :> "SUBFILETYPE") @@ ("OSubFileType" :> "OSUBFILETYPE")
    @@ ("ImageLength" :> "IMAGELENGTH") @@ ("imagelength" :> "IMAGELENGTH")
    @@ ("ImageHeight" :> "IMAGEHEIGHT") @@ ("long" :> "LONG") @@ ("Long" :> "LONG")
    @@ ("dword" :> "DWORD") @@ ("nope" :> "NOPE")
Upper(key) == IF key \in DOMAIN UpperWords THEN UpperWords[key] ELSE key
\* the names TiffConstantSet keeps for the tags of the model (name.upper())
TagNames(tagSet) ==
    IF tagSet = "Tag"
    THEN ("SUBIFD" :> SubIFD) @@ ("EXIFIFD" :> EXIFIFD) @@ ("IMAGEWIDTH" :> 256)
         @@ ("IMAGEDESCRIPTION" :> 270) @@ ("ORIENTATION" :> 274)
    ELSE EmptyDict
\* get_or_create_tag(key, tagSet): the tag (ok) or UnknownTagError
get_or_create_tag(key, tagSet) ==
    IF ~ParseInt0(key).ok
    THEN IF Upper(key) \in DOMAIN TagNames(tagSet)
         THEN [ok |-> TRUE, v |-> TagNames(tagSet)[Upper(key)]]
         ELSE [ok |-> FALSE, v |-> -1]
    ELSE IF ParseInt0(key).v < 0 \/ ParseInt0(key).v >= 65536
    THEN [ok |-> FALSE, v |-> ParseInt0(key).v]
    ELSE ParseInt0(key)

\* read_tiff_limit_ifds: info with the directories the limit records select
\* ('ifdReduction': the records), or the exception raised
LimitError(info, err) == [info EXCEPT !.ifds = <<>>, !.err = err]
\* info['ifdReduction'] = limitRecords, unless an exception is on its way
Reduced(info, limitRecords) ==
    IF info.err # "" THEN info ELSE [ifdReduction |-> limitRecords] @@ info
RECURSIVE read_tiff_limit_ifds(_, _, _)
\* lines 135-149: the records after the first; ifd is info['ifds'][k]
LimitedFrom(info, limitRecords, tagSet, ifd) ==
    IF Len(limitRecords) = 1
    THEN Reduced([info EXCEPT !.ifds = <<ifd>>], limitRecords)
    ELSE
    LET colon     == HasColon(limitRecords[2])
        tagName   == IF colon THEN SplitColon(limitRecords[2])[1] ELSE "SubIFD"
        subIFDNum == ParseInt(IF colon THEN SplitColon(limitRecords[2])[2]
                              ELSE limitRecords[2])
        tag       == get_or_create_tag(tagName, tagSet)
    IN IF ~tag.ok THEN LimitError(info, "UnknownTagError")
       ELSE IF tag.v \notin DOMAIN ifd.tags \/ ~ifd.tags[tag.v].hasifds
       THEN LimitError(info, "KeyError")
       ELSE IF ~subIFDNum.ok THEN LimitError(info, "ValueError")
       ELSE IF PyIndex(Len(ifd.tags[tag.v].ifds), subIFDNum.v) = 0
       THEN LimitError(info, "IndexError")
       ELSE Reduced(read_tiff_limit_ifds(
                        [info EXCEPT !.ifds = ifd.tags[tag.v].ifds[
                                         PyIndex(Len(ifd.tags[tag.v].ifds), subIFDNum.v)]],
                        SubSeq(limitRecords, 3, Len(limitRecords)),
                        TagTagset(tagSet, tag.v)),
                    limitRecords)
read_tiff_limit_ifdsFirstOnly(info, limitRecords, tagSet) ==
    IF limitRecords = <<>> \/ info.err # "" THEN info
    ELSE IF ~ParseInt(limitRecords[1]).ok THEN LimitError(info, "ValueError")
    ELSE IF PyIndex(Len(info.ifds), ParseInt(limitRecords[1]).v) = 0
    THEN LimitError(info, "IndexError")
    ELSE Reduced([info EXCEPT !.ifds = <<info.ifds[PyIndex(Len(info.ifds),
                                                          ParseInt(limitRecords[1]).v)]>>],
                 limitRecords)
read_tiff_limit_ifds(info, limitRecords, tagSet) ==
    IF limitRecords = <<>> \/ info.err # "" THEN info
    ELSE IF ~ParseInt(limitRecords[1]).ok THEN LimitError(info, "ValueError")
    ELSE IF PyIndex(Len(info.ifds), ParseInt(limitRecords[1]).v) = 0
    THEN LimitError(info, "IndexError")
    ELSE LimitedFrom(info, limitRecords, tagSet,
                     info.ifds[PyIndex(Len(info.ifds), ParseInt(limitRecords[1]).v)])

\* lines 87-93: the number of parts cut off the end of the path, from one
\* part on, the first for which what is left is a file that exists; 0 if
\* there is none
RECURSIVE PathCut(_, _, _)
PathCut(fs, parts, splits) ==
    IF splits >= Len(parts) THEN 0
    ELSE IF Join(SubSeq(parts, 1, Len(parts) - splits), ",") \in DOMAIN fs THEN splits
    ELSE PathCut(fs, parts, splits + 1)

\* if limitIFDs: info, _ = read_tiff_limit_ifds(info, limitIFDs)
ReadTiffCut(fs, parts, splits) ==
    read_tiff_limit_ifds(ReadTiffAt(fs, Join(SubSeq(parts, 1, Len(parts) - splits), ",")),
                         SubSeq(parts, Len(parts) - splits + 1, Len(parts)), "Tag")

read_tiff(fs, path) == ReadTiffCut(fs, SplitComma(path), PathCut(fs, SplitComma(path), 1))

(***************************************************************************)
(* tiff_concat and tiff_split (commands.py).  An option that is None is    *)
(* the record [has |-> FALSE]; kw holds the keyword options bigtiff,       *)
(* bigendian, ifdsfirst and dedup.                                         *)
(***************************************************************************)
None == [has |-> FALSE, v |-> FALSE]
Some(v) == [has |-> TRUE, v |-> v]

\* _apply_flags_to_ifd on a directory
_apply_flags_to_ifd(ifd, kw) ==
    [ifd EXCEPT !.bigtiff = IF kw.bigtiff.has THEN kw.bigtiff.v ELSE @,
                !.bigEndian = IF kw.bigendian.has THEN kw.bigendian.v ELSE @]

\* a result of a command that raised before write_tiff was called
Failed(fs, err) ==
    [fs |-> fs, ifds |-> <<>>, err |-> err, attempts |-> 0, bigtiff |-> FALSE,
     retried |-> <<>>, reused |-> 0, wpath |-> ""]

\* for path in source: ifds.extend(read_tiff(path)['ifds'])
Extended(acc, nextInfo) == [ifds |-> acc.ifds \o nextInfo.ifds, err |-> nextInfo.err]
RECURSIVE ReadAll(_, _, _, _)
ReadAll(fs, source, i, acc) ==
    IF i > Len(source) \/ acc.err # "" THEN acc
    ELSE ReadAll(fs, source, i + 1, Extended(acc, read_tiff(fs, source[i])))

\* lines 63-65: ifds holds the directories of all the sources, the flags
\* applied to the first
ConcatWrite(fs, ifds, output, overwrite, kw) ==
    write_tiff(fs, ifds, output, ifds[1].bigEndian, ifds[1].bigtiff, overwrite,
               kw.ifdsfirst, kw.dedup)

ConcatRead(fs, r, output, overwrite, kw) ==
    IF r.err # "" THEN Failed(fs, r.err)
    ELSE IF r.ifds = <<>> THEN Failed(fs, "IndexError")
    ELSE ConcatWrite(fs, [r.ifds EXCEPT ![1] = _apply_flags_to_ifd(@, kw)], output,
                     overwrite, kw)

tiff_concat(fs, source, output, overwrite, kw) ==
    ConcatRead(fs, ReadAll(fs, source, 1, [ifds |-> <<>>, err |-> ""]), output, overwrite, kw)

\* _iterate_ifds: the directories in the order they are yielded
RECURSIVE _iterate_ifds(_, _)
RECURSIVE IterateChains(_, _)
_iterate_ifds(ifds, subifds) ==
    IF ifds = <<>> THEN <<>>
    ELSE LET ifd == Head(ifds)
         IN <<ifd>>
            \o (IF subifds /\ SubIFD \in DOMAIN ifd.tags
                THEN IterateChains(ifd.tags[SubIFD].ifds, subifds) ELSE <<>>)
            \o _iterate_ifds(Tail(ifds), subifds)
IterateChains(chains, subifds) ==
    IF chains = <<>> THEN <<>>
    ELSE _iterate_ifds(Head(chains), subifds) \o IterateChains(Tail(chains), subifds)

Letters == <<"a", "b", "c", "d", "e", "f", "g", "h", "i", "j", "k", "l", "m",
             "n", "o", "p", "q", "r", "s", "t", "u", "v", "w", "x", "y", "z">>

\* the loop of _make_split_name on the character codes: (num % 26) + 97 is
\* put in front of the codes so far
RECURSIVE SplitCounter(_, _, _)
SplitCounter(num, neededChars, codes) ==
    IF neededChars = 0 THEN codes
    ELSE SplitCounter(num \div 26, neededChars - 1, <<(num % 26) + 97>> \o codes)

RECURSIVE SplitSuffixLsdFirst(_, _, _)
SplitSuffixLsdFirst(num, neededChars, suffix) ==
    IF neededChars = 0 THEN suffix
    ELSE Letters[(num % 26) + 1] \o SplitSuffixLsdFirst(num \div 26, neededChars - 1, suffix)
\* _make_split_name: chr((num % 26) + 97) is Letters[(num % 26) + 1]
RECURSIVE SplitSuffix(_, _, _)
SplitSuffix(num, neededChars, suffix) ==
    IF neededChars = 0 THEN suffix
    ELSE SplitSuffix(num \div 26, neededChars - 1, Letters[(num % 26) + 1] \o suffix)
_make_split_name(prefix, num, neededChars) == prefix \o SplitSuffix(num, neededChars, ".tif")

\* max(int(math.ceil(math.log(numOutput) / math.log(26))), 3)
RECURSIVE CeilLog26(_, _, _)
CeilLog26(n, k, p) == IF p >= n THEN k ELSE CeilLog26(n, k + 1, p * 26)
NeededChars(numOutput) == Max(CeilLog26(numOutput, 0, 1), 3)

\* the loop of lines 358-367 from directory idx on
RECURSIVE SplitWrite(_, _, _, _, _, _, _, _)
SplitWrite(r, all, idx, prefix, neededChars, subifds, overwrite, kw) ==
    IF idx > Len(all) \/ r.err # "" THEN r
    ELSE LET ifd0 == all[idx]
             \* copy.deepcopy(ifd); del ifd['tags'][int(Tag.SubIFD)]
             ifd1 == IF subifds /\ SubIFD \in DOMAIN ifd0.tags
                     THEN [ifd0 EXCEPT
                             !.tags = Restrict(ifd0.tags, (DOMAIN ifd0.tags) \ {SubIFD})]
                     ELSE ifd0
             ifd  == _apply_flags_to_ifd(ifd1, kw)
         IN SplitWrite(write_tiff(r.fs, <<ifd>>, _make_split_name(prefix, idx - 1, neededChars),
                                  ifd.bigEndian, ifd.bigtiff, overwrite, kw.ifdsfirst,
                                  kw.dedup),
                       all, idx + 1, prefix, neededChars, subifds, overwrite, kw)

\* lines 349-367: all holds the directories _iterate_ifds yields
SplitIfds(fs, all, prefix, subifds, overwrite, kw) ==
    LET numOutput   == Len(all)
        neededChars == NeededChars(numOutput)
    IN IF numOutput = 0 THEN Failed(fs, "ValueError")
       ELSE IF ~overwrite /\ \E idx \in 0..(numOutput - 1) :
                                _make_split_name(prefix, idx, neededChars) \in DOMAIN fs
       THEN Failed(fs, "File already exists")
       ELSE SplitWrite(Failed(fs, ""), all, 1, prefix, neededChars, subifds, overwrite, kw)

SplitRead(fs, info, prefix, subifds, overwrite, kw) ==
    IF info.err # "" THEN Failed(fs, info.err)
    ELSE SplitIfds(fs, _iterate_ifds(info.ifds, subifds), prefix, subifds, overwrite, kw)

tiff_split(fs, source, prefix, subifds, overwrite, kw) ==
    SplitRead(fs, read_tiff(fs, source), prefix, subifds, overwrite, kw)

(***************************************************************************)
(* tiff_set (commands.py): the values of --set.  A value is a string or    *)
(* bytes.  An integer of a value is kept as its sign and the bytes of its  *)
(* magnitude, least significant first and without leading zeros, so that   *)
(* an integer of 32 bits is told from one of 64; a number that is not an   *)
(* integer is kept as the word it was written as.  A string is split, a    *)
(* number parsed and a text encoded by looking the string up among the     *)
(* words the values of the model are made of.                              *)
(***************************************************************************)
StrValue(s) == [k |-> "str", s |-> s, b |-> <<>>]
BytesValue(b) == [k |-> "bytes", s |-> "", b |-> b]
NoValue == [k |-> "none", s |-> "", b |-> <<>>]

RECURSIVE Magnitude(_)
Magnitude(v) == IF v = 0 THEN <<>> ELSE <<v % 256>> \o Magnitude(v \div 256)
BigNum(neg, mag) == [k |-> "int", neg |-> neg, mag |-> mag, word |-> ""]
IntNum(v) == BigNum(v < 0, Magnitude(IF v < 0 THEN -v ELSE v))
\* float(n) of an integer n, and the float a word stands for
FloatOf(num) == [num EXCEPT !.k = "float"]
FloatNum(word) == [k |-> "float", neg |-> FALSE, mag |-> <<>>, word |-> word]
\* the integer of a number of at most three bytes
NumInt(num) == (IF num.neg THEN -1 ELSE 1) * BEValue(Reverse(num.mag), 0)

\* the integers the short decimal numerals of the model stand for
SetInts == {-40000, -4567, -2, -1, 2, 3, 5, 6, 7, 9, 12, 123, 256, 300, 70000}
\* 5000000000 = 0x12A05F200, -3000000000 = -0xB2D05E00,
\* 99999999999999999999 = 0x56BC75E2D630FFFFF
BigNumerals ==
    ("5000000000" :> BigNum(FALSE, <<0, 242, 5, 42, 1>>))
    @@ ("-3000000000" :> BigNum(TRUE, <<0, 94, 208, 178>>))
    @@ ("99999999999999999999" :> BigNum(FALSE, <<255, 255, 15, 99, 45, 94, 199, 107, 5>>))
\* the numerals of the model that float() takes and int() does not
FloatNumerals == {"1.5", "4.2", "5.4", "1e40"}
\* the words of the model without a digit
DigitlessWords == {"abc", "notanumber", "Value"}

\* str.encode() for the values of the model, and bytes.decode() back
Utf8 ==
    ("123 -4567" :> <<49, 50, 51, 32, 45, 52, 53, 54, 55>>) @@ ("5" :> <<53>>) @@
    ("300" :> <<51, 48, 48>>) @@ ("70000" :> <<55, 48, 48, 48, 48>>) @@ ("-1" :> <<45, 49>>) @@
    ("-40000" :> <<45, 52, 48, 48, 48, 48>>) @@
    ("5000000000" :> <<53, 48, 48, 48, 48, 48, 48, 48, 48, 48>>) @@
    ("-3000000000" :> <<45, 51, 48, 48, 48, 48, 48, 48, 48, 48, 48>>) @@
    ("99999999999999999999" :> <<57, 57, 57, 57, 57, 57, 57, 57, 57, 57, 57, 57, 57, 57, 57, 57, 57, 57, 57, 57>>) @@
    ("1.5" :> <<49, 46, 53>>) @@ ("abc" :> <<97, 98, 99>>) @@
    ("12 abc" :> <<49, 50, 32, 97, 98, 99>>) @@ ("5,6" :> <<53, 44, 54>>) @@
    ("5 6 7" :> <<53, 32, 54, 32, 55>>) @@ ("3,4.2" :> <<51, 44, 52, 46, 50>>) @@
    ("256" :> <<50, 53, 54>>) @@ ("-2" :> <<45, 50>>) @@ ("1e40" :> <<49, 101, 52, 48>>) @@
    ("notanumber" :> <<110, 111, 116, 97, 110, 117, 109, 98, 101, 114>>) @@
    ("5.4,notanumber" :> <<53, 46, 52, 44, 110, 111, 116, 97, 110, 117, 109, 98, 101, 114>>) @@
    ("Value" :> <<86, 97, 108, 117, 101>>) @@ ("9" :> <<57>>) @@ ("2" :> <<50>>)
Encode(s) == Utf8[s]
Decode(b) == CHOOSE s \in DOMAIN Utf8 : Utf8[s] = b

\* the values of the model with more than one part, as their parts
ValueParts ==
    {<<"123", "-4567">>, <<"12", "abc">>, <<"5", "6">>, <<"5", "6", "7">>, <<"3", "4.2">>,
     <<"5.4", "notanumber">>}
\* text.replace(',', ' ').strip().split()
SplitValue(text) ==
    IF \E parts \in ValueParts, sep \in {" ", ","} : Join(parts, sep) = text
    THEN CHOOSE parts \in ValueParts : \E sep \in {" ", ","} : Join(parts, sep) = text
    ELSE <<text>>
\* re.search(r'\d', text)
HasDigit(text) == \E i \in 1..Len(SplitValue(text)) : SplitValue(text)[i] \notin DigitlessWords

\* asInt: int(part), [ok |-> FALSE] for None
PartInt(part) ==
    IF \E n \in SetInts : ToString(n) = part
    THEN [ok |-> TRUE, v |-> IntNum(CHOOSE n \in SetInts : ToString(n) = part)]
    ELSE IF part \in DOMAIN BigNumerals THEN [ok |-> TRUE, v |-> BigNumerals[part]]
    ELSE [ok |-> FALSE, v |-> FloatNum("")]
\* asFloat: float(part), [ok |-> FALSE] for None
PartFloat(part) ==
    IF PartInt(part).ok THEN [ok |-> TRUE, v |-> FloatOf(PartInt(part).v)]
    ELSE IF part \in FloatNumerals THEN [ok |-> TRUE, v |-> FloatNum(part)]
    ELSE [ok |-> FALSE, v |-> FloatNum("")]
\* floatList and intList of lines 377-391; None is [ok |-> FALSE]
FloatList(parts) ==
    [i \in 1..Len(parts) |-> IF PartFloat(parts[i]).ok THEN PartFloat(parts[i])
                             ELSE PartInt(parts[i])]
IntList(parts) ==
    [i \in 1..Len(parts) |-> IF PartInt(parts[i]).ok THEN PartInt(parts[i])
                             ELSE PartFloat(parts[i])]

\* the sizes of a C long: 4 bytes (Windows), 8 bytes (Linux and macOS, 64 bits)
NativeLongs == {4, 8}
\* struct.pack of one number with a format character in native mode, where
\* 'L' and 'l' have the size of a C long, nativeLong bytes: does it succeed
NativeFits(ch, num, nativeLong) ==
    LET size == IF ch \in {"L", "l"} THEN nativeLong ELSE PackSize(ch)
    IN /\ num.k = "int"
       /\ IF PackSigned(ch)
          THEN \/ Len(num.mag) < size
               \/ /\ Len(num.mag) = size
                  /\ \/ num.mag[size] < 128
                     \/ num.neg /\ num.mag = [i \in 1..size |-> IF i = size THEN 128 ELSE 0]
          ELSE (~num.neg \/ num.mag = <<>>) /\ Len(num.mag) <= size
\* struct.pack(datatype.pack * (len(intList) // len(datatype.pack)), *data):
\* does it succeed; 'f' and 'd' take every number of the model
NativePacks(dt, data, nativeLong) ==
    LET fmt == DatatypePack(dt)
    IN /\ Len(data) % Len(fmt) = 0
       /\ dt \notin {FLOAT, DOUBLE} =>
             \A i \in 1..Len(data) :
                NativeFits(fmt[((i - 1) % Len(fmt)) + 1], data[i].v, nativeLong)

\* the data of a tag as tiff_set holds it: bytes, a string or a list of numbers
SetBytes(b) == [k |-> "bytes", s |-> "", b |-> b, n |-> <<>>]
SetStr(s) == [k |-> "str", s |-> s, b |-> <<>>, n |-> <<>>]
SetNums(list) == [k |-> "nums", s |-> "", b |-> <<>>,
                  n |-> [i \in 1..Len(list) |-> list[i].v]]

\* _value_to_types_numeric: the datatypes with a pack the numbers fit
NumericTypes(text, nativeLong) ==
    {dt \in DatatypeIds \ {ASCII, UNDEFINED} :
        LET data == IF dt \in {FLOAT, DOUBLE} THEN FloatList(SplitValue(text))
                    ELSE IntList(SplitValue(text))
        IN (\A i \in 1..Len(data) : data[i].ok) /\ NativePacks(dt, data, nativeLong)}
\* _value_to_types: the dictionary from the datatypes that make sense to
\* the parsed value
ValueText(value) == IF value.k = "bytes" THEN Decode(value.b) ELSE value.s
_value_to_types(value, nativeLong) ==
    LET hasText == value.k = "str" \/ Decodes(value.b)
        numeric == IF hasText /\ HasDigit(ValueText(value))
                   THEN NumericTypes(ValueText(value), nativeLong) ELSE {}
    IN [dt \in {UNDEFINED} \cup (IF hasText THEN {ASCII} ELSE {}) \cup numeric |->
          IF dt = UNDEFINED
          THEN SetBytes(IF value.k = "bytes" THEN value.b ELSE Encode(value.s))
          ELSE IF dt = ASCII THEN SetStr(ValueText(value))
          ELSE IF dt \in {FLOAT, DOUBLE} THEN SetNums(FloatList(SplitValue(ValueText(value))))
          ELSE SetNums(IntList(SplitValue(ValueText(value))))]

(***************************************************************************)
(* _tagspec_to_ifd: <tag name or number>[:<datatype>][,<ifd-#>] and a      *)
(* value give the tag, the datatype (0 for None), the directory (its       *)
(* number from 1 in info['ifds']) and the parsed value, or an exception.   *)
(***************************************************************************)
\* the tag specifiers of the model that hold a ',', as their parts
TagspecParts ==
    {<<"23456", "0">>, <<"23456", "1">>, <<"23456", "-1">>, <<"23456", "7">>,
     <<"ImageWidth", "1">>, <<"23456:SHORT", "1">>}
\* tagspec.split(',', 1) and ifdspec.split(',') at once
SplitTagspec(tagspec) ==
    IF \E parts \in TagspecParts : Join(parts, ",") = tagspec
    THEN CHOOSE parts \in TagspecParts : Join(parts, ",") = tagspec
    ELSE <<tagspec>>

\* the names of the datatypes, Datatype.__dict__
DatatypeNames ==
    ("BYTE" :> BYTE) @@ ("ASCII" :> ASCII) @@ ("SHORT" :> SHORT) @@ ("LONG" :> LONG)
    @@ ("DWORD" :> LONG) @@ ("RATIONAL" :> RATIONAL) @@ ("SBYTE" :> SBYTE)
    @@ ("UNDEFINED" :> UNDEFINED) @@ ("SSHORT" :> SSHORT) @@ ("SLONG" :> SLONG)
    @@ ("SRATIONAL" :> SRATIONAL) @@ ("FLOAT" :> FLOAT) @@ ("DOUBLE" :> DOUBLE)
    @@ ("IFD" :> IFD) @@ ("LONG8" :> LONG8) @@ ("SLONG8" :> SLONG8) @@ ("IFD8" :> IFD8)
\* datatype in Datatype and Datatype[datatype]
DatatypeOf(word) ==
    IF ParseInt0(word).ok
    THEN [ok |-> ParseInt0(word).v \in DatatypeIds, v |-> ParseInt0(word).v]
    ELSE IF Upper(word) \in DOMAIN DatatypeNames
    THEN [ok |-> TRUE, v |-> DatatypeNames[Upper(word)]]
    ELSE [ok |-> FALSE, v |-> 0]

\* tag.datatype as a tuple for the registered tags of the model, <<>> for a
\* tag without 'datatype'
RegisteredDatatypes(tag) ==
    CASE tag = 256 -> <<SHORT, LONG>>
      [] tag = 270 -> <<ASCII>>
      [] tag = 274 -> <<SHORT>>
      [] tag \in {StripOffsets, StripByteCounts} -> <<SHORT, LONG, LONG8>>
      [] tag = SubIFD -> <<IFD, IFD8>>
      [] OTHER -> <<>>
\* a tag of the registry keeps its datatypes, a new tag gets tagOptions
TagDatatypes(tag, datatype) ==
    IF RegisteredDatatypes(tag) # <<>> \/ datatype = 0 THEN RegisteredDatatypes(tag)
    ELSE <<datatype>>

\* next((dt for dt in order if dt in types), default)
RECURSIVE FirstIn(_, _, _)
FirstIn(order, types, default) ==
    IF order = <<>> THEN default
    ELSE IF Head(order) \in types THEN Head(order)
    ELSE FirstIn(Tail(order), types, default)
\* the order of lines 483-486
DatatypeOrder == <<BYTE, SHORT, LONG, LONG8, SBYTE, SSHORT, SLONG, SLONG8, DOUBLE, ASCII>>

NoSetData == [k |-> "none", s |-> "", b |-> <<>>, n |-> <<>>]
TagspecError(err) == [err |-> err, tag |-> 0, datatype |-> 0, ifd |-> 0, data |-> NoSetData]

\* lines 470-489: tag is known, datatype is 0 or the one of the specifier
TagspecTyped(tag, datatype, ifd, hasValue, valueTypes) ==
    LET fromTag == IF datatype = 0 /\ TagDatatypes(tag, datatype) # <<>>
                   THEN FirstIn(TagDatatypes(tag, datatype),
                                IF hasValue THEN DOMAIN valueTypes ELSE DatatypeIds, 0)
                   ELSE datatype
        chosen  == IF hasValue /\ fromTag = 0
                   THEN FirstIn(DatatypeOrder, DOMAIN valueTypes, UNDEFINED)
                   ELSE fromTag
    IN [err |-> "", tag |-> tag, datatype |-> chosen, ifd |-> ifd,
        data |-> IF hasValue /\ chosen \in DOMAIN valueTypes THEN valueTypes[chosen]
                 ELSE NoSetData]

\* lines 461-469: the specifier without its ifdspec
TagspecOfIfd(tagword, ifd, tagSet, value, hasValue, valueTypes) ==
    LET colon    == HasColon(tagword)
        datatype == IF colon THEN DatatypeOf(SplitColon(tagword)[2])
                    ELSE [ok |-> TRUE, v |-> 0]
        tag      == get_or_create_tag(IF colon THEN SplitColon(tagword)[1] ELSE tagword,
                                      tagSet)
    IN IF ~datatype.ok THEN TagspecError("Unknown datatype")
       ELSE IF colon /\ hasValue /\ datatype.v \notin DOMAIN valueTypes
       THEN TagspecError("cannot be converted")
       ELSE IF ~tag.ok THEN TagspecError("UnknownTagError")
       ELSE TagspecTyped(tag.v, datatype.v, ifd, hasValue, valueTypes)

\* lines 453-460: the directory of the specifier; the specifiers of the
\* model select a top-level directory
TagspecSplit(parts, info, value, valueTypes) ==
    IF Len(parts) = 1
    THEN IF info.ifds = <<>> THEN TagspecError("IndexError")
         ELSE TagspecOfIfd(parts[1], 1, "Tag", value, value.k # "none", valueTypes)
    ELSE IF read_tiff_limit_ifds(info, Tail(parts), "Tag").err # ""
    THEN TagspecError(read_tiff_limit_ifds(info, Tail(parts), "Tag").err)
    ELSE TagspecOfIfd(parts[1], PyIndex(Len(info.ifds), ParseInt(parts[2]).v), "Tag",
                      value, value.k # "none", valueTypes)

_tagspec_to_ifd(tagspec, info, value, nativeLong) ==
    TagspecSplit(SplitTagspec(tagspec), info, value,
                 IF value.k = "none" THEN EmptyDict ELSE _value_to_types(value, nativeLong))

(***************************************************************************)
(* tiff_set and _tiff_set (commands.py).  setlist is a sequence of pairs   *)
(* <<tagspec, value>>, unset a sequence of tag specifiers; setfrom is None *)
(* and no specifier is 'projection' or 'gcps'.                             *)
(***************************************************************************)
\* the value _tagspec_to_ifd returns as the data of a tag of the tree; the
\* texts of the model are ASCII, one character a byte
TreeData(data) ==
    IF data.k = "nums" THEN ListData([i \in 1..Len(data.n) |-> NumInt(data.n[i])])
    ELSE IF data.k = "str" THEN StrData(Encode(data.s))
    ELSE BytesData(data.b)

\* the insertion order of a dictionary without a key
TagKept(order, tag) == LET Keep(t) == t # tag IN SelectSeq(order, Keep)

\* (TagPopKeeps: the tag stays in the directory)
TagPopKeeps(ifd, tag) == ifd

\* ifd['tags'].pop(int(tag), None)
TagPop(ifd, tag) ==
    [ifd EXCEPT !.tags = Restrict(@, (DOMAIN @) \ {tag}),
                !.tagorder = TagKept(@, tag)]
\* ifd['tags'][int(tag)] = {'data': data, 'datatype': datatype}
TagPut(ifd, tag, datatype, data) ==
    [ifd EXCEPT !.tags = DictSet(@, tag, [TagInfo(datatype, 0, 0) EXCEPT
                                             !.data = TreeData(data)]),
                !.tagorder = IF tag \in DOMAIN ifd.tags THEN @ ELSE Append(@, tag)]

\* lines 509-514, one tagspec of unset; r is what _tagspec_to_ifd returned
UnsetOne(info, r) ==
    IF r.err # "" THEN [info |-> info, err |-> r.err]
    ELSE [info |-> [info EXCEPT !.ifds[r.ifd] = TagPop(@, r.tag)], err |-> ""]
RECURSIVE UnsetAll(_, _, _)
UnsetAll(acc, unset, i) ==
    IF i > Len(unset) \/ acc.err # "" THEN acc
    ELSE UnsetAll(UnsetOne(acc.info, _tagspec_to_ifd(unset[i], acc.info, NoValue, 0)),
                  unset, i + 1)

\* lines 527-535, one pair of setlist; without data the tag is not set
SetOne(info, r) ==
    IF r.err # "" THEN [info |-> info, err |-> r.err]
    ELSE IF r.data.k = "none" THEN [info |-> info, err |-> ""]
    ELSE [info |-> [info EXCEPT !.ifds[r.ifd] = TagPut(@, r.tag, r.datatype, r.data)],
          err |-> ""]
RECURSIVE SetAll(_, _, _, _)
SetAll(acc, setlist, i, nativeLong) ==
    IF i > Len(setlist) \/ acc.err # "" THEN acc
    ELSE SetAll(SetOne(acc.info, _tagspec_to_ifd(setlist[i][1], acc.info, setlist[i][2],
                                                 nativeLong)),
                setlist, i + 1, nativeLong)

\* lines 544-547: write_tiff takes bigEndian and bigtiff from the info record
SetWrite(fs, info, output, overwrite, kw) ==
    write_tiff(fs, info.ifds, output, info.bigEndian, info.bigtiff, overwrite,
               kw.ifdsfirst, kw.dedup)
SetEdited(fs, acc, output, overwrite, kw) ==
    IF acc.err # "" THEN Failed(fs, acc.err)
    ELSE SetWrite(fs, _apply_flags_to_ifd(acc.info, kw), output, overwrite, kw)
SetRead(fs, info, output, setlist, unset, overwrite, kw, nativeLong) ==
    IF info.err # "" THEN Failed(fs, info.err)
    ELSE SetEdited(fs, SetAll(UnsetAll([info |-> info, err |-> ""], unset, 1), setlist, 1,
                              nativeLong),
                   output, overwrite, kw)
_tiff_set(fs, source, output, setlist, unset, overwrite, kw, nativeLong) ==
    SetRead(fs, read_tiff(fs, source), output, setlist, unset, overwrite, kw, nativeLong)

\* output=None
OutputNone == ""
\* os.path.join(tmpdir, 'output.tiff') of a new temporary directory
TmpOutput == "tifftools/output.tiff"
\* lines 577-581: the temporary file is copied over the source and removed
\* with its directory; after an exception only the directory is removed
SetCopied(fs, source, r) ==
    IF r.err # "" THEN [r EXCEPT !.fs = fs]
    ELSE [r EXCEPT !.fs = DictSet(fs, source, r.fs[TmpOutput])]
SetOutput(source, output) == IF output = OutputNone THEN source ELSE output

\* (tiff_setNoExistsCheck: an existing output is replaced without overwrite)
tiff_setNoExistsCheck(fs, source, output, overwrite, setlist, unset, kw, nativeLong) ==
    IF SetOutput(source, output) = source
    THEN SetCopied(fs, source,
                   _tiff_set(fs, source, TmpOutput, setlist, unset, FALSE, kw, nativeLong))
    ELSE _tiff_set(fs, source, SetOutput(source, output), setlist, unset, TRUE, kw,
                   nativeLong)

tiff_set(fs, source, output, overwrite, setlist, unset, kw, nativeLong) ==
    IF SetOutput(source, output) \in DOMAIN fs /\ ~overwrite
    THEN Failed(fs, "File already exists")
    ELSE IF SetOutput(source, output) = source
    THEN SetCopied(fs, source,
                   _tiff_set(fs, source, TmpOutput, setlist, unset, FALSE, kw, nativeLong))
    ELSE _tiff_set(fs, source, SetOutput(source, output), setlist, unset, overwrite, kw,
                   nativeLong)

(***************************************************************************)
(* TiffConstant (constants.py): a constant is its value, its name and its  *)
(* altnames.  What a constant is compared with is a record of the same     *)
(* shape: an int (value), a str (name holds the string), None, or another  *)
(* constant.                                                               *)
(***************************************************************************)
TiffConstant(value, name, altnames) ==
    [k |-> "const", value |-> value, name |-> name, altnames |-> altnames]
IntOther(n) == [k |-> "int", value |-> n, name |-> "", altnames |-> {}]
StrOther(word) == [k |-> "str", value |-> 0, name |-> word, altnames |-> {}]
NoneOther == [k |-> "none", value |-> 0, name |-> "", altnames |-> {}]

\* TiffConstant.__eq__(self, other)
__eq__(self, other) ==
    IF other.k = "const" THEN self.value = other.value /\ self.name = other.name
    ELSE IF other.k = "int" THEN self.value = other.value
    ELSE IF other.k = "none" THEN FALSE
    ELSE IF ParseInt(other.name).ok THEN self.value = ParseInt(other.name).v
    ELSE IF ParseInt0(other.name).ok THEN self.value = ParseInt0(other.name).v
    ELSE Upper(self.name) = Upper(other.name)

(***************************************************************************)
(* The input files of the model.                                           *)
(***************************************************************************)
\* classic, little-endian, two directories: the first with an out-of-line
\* ASCII value, two strips (SHORT offsets) and a SubIFD, the second with an
\* ASCII value that is not UTF-8 (97, 255, 0) and one strip
FileA ==
    <<73, 73, 42, 0, 38, 0, 0, 0, 65, 66, 67, 68, 69, 70, 104, 101, 108, 108, 111, 0, 1, 0, 0, 1,
      3, 0, 1, 0, 0, 0, 7, 0, 0, 0, 0, 0, 0, 0, 5, 0, 0, 1, 3, 0, 1, 0, 0, 0,
      5, 0, 0, 0, 14, 1, 2, 0, 6, 0, 0, 0, 14, 0, 0, 0, 17, 1, 3, 0, 2, 0, 0, 0,
      8, 0, 12, 0, 23, 1, 3, 0, 2, 0, 0, 0, 4, 0, 2, 0, 74, 1, 4, 0, 1, 0, 0, 0,
      20, 0, 0, 0, 104, 0, 0, 0, 4, 0, 0, 1, 4, 0, 1, 0, 0, 0, 9, 0, 0, 0, 49, 1,
      2, 0, 3, 0, 0, 0, 97, 255, 0, 0, 17, 1, 4, 0, 1, 0, 0, 0, 12, 0, 0, 0, 23, 1,
      4, 0, 1, 0, 0, 0, 2, 0, 0, 0, 0, 0, 0, 0>>
\* BigTIFF, big-endian, one directory: a tile, an EXIF directory referenced
\* by a LONG8 value, a LONG8 pair (7, 150) and an SLONG8 value (-5)
FileB ==
    <<77, 77, 0, 43, 0, 8, 0, 0, 0, 0, 0, 0, 0, 0, 0, 72, 84, 73, 76, 69, 0, 0, 0, 0,
      0, 0, 0, 7, 0, 0, 0, 0, 0, 0, 0, 150, 0, 0, 0, 0, 0, 0, 0, 1, 136, 39, 0, 3,
      0, 0, 0, 0, 0, 0, 0, 1, 0, 100, 0, 0, 0, 0, 0, 0, 0, 0, 0, 0, 0, 0, 0, 0,
      0, 0, 0, 0, 0, 0, 0, 6, 1, 0, 0, 3, 0, 0, 0, 0, 0, 0, 0, 1, 0, 6, 0, 0,
      0, 0, 0, 0, 1, 68, 0, 16, 0, 0, 0, 0, 0, 0, 0, 1, 0, 0, 0, 0, 0, 0, 0, 16,
      1, 69, 0, 16, 0, 0, 0, 0, 0, 0, 0, 1, 0, 0, 0, 0, 0, 0, 0, 4, 135, 105, 0, 16,
      0, 0, 0, 0, 0, 0, 0, 1, 0, 0, 0, 0, 0, 0, 0, 36, 253, 233, 0, 16, 0, 0, 0, 0,
      0, 0, 0, 2, 0, 0, 0, 0, 0, 0, 0, 20, 253, 234, 0, 17, 0, 0, 0, 0, 0, 0, 0, 1,
      255, 255, 255, 255, 255, 255, 255, 251, 0, 0, 0, 0, 0, 0, 0, 0>>
\* BigTIFF, little-endian, sparse: the directory at 16 and its one strip of
\* two bytes at offset 200
FileC ==
    <<73, 73, 43, 0, 8, 0, 0, 0, 16, 0, 0, 0, 0, 0, 0, 0, 3, 0, 0, 0, 0, 0, 0, 0,
      0, 1, 3, 0, 1, 0, 0, 0, 0, 0, 0, 0, 4, 0, 0, 0, 0, 0, 0, 0, 17, 1, 16, 0,
      1, 0, 0, 0, 0, 0, 0, 0, 200, 0, 0, 0, 0, 0, 0, 0, 23, 1, 16, 0, 1, 0, 0, 0,
      0, 0, 0, 0, 2, 0, 0, 0, 0, 0, 0, 0, 0, 0, 0, 0, 0, 0, 0, 0, 0, 0, 0, 0,
      0, 0, 0, 0, 0, 0, 0, 0, 0, 0, 0, 0, 0, 0, 0, 0, 0, 0, 0, 0, 0, 0, 0, 0,
      0, 0, 0, 0, 0, 0, 0, 0, 0, 0, 0, 0, 0, 0, 0, 0, 0, 0, 0, 0, 0, 0, 0, 0,
      0, 0, 0, 0, 0, 0, 0, 0, 0, 0, 0, 0, 0, 0, 0, 0, 0, 0, 0, 0, 0, 0, 0, 0,
      0, 0, 0, 0, 0, 0, 0, 0, 0, 0, 0, 0, 0, 0, 0, 0, 0, 0, 0, 0, 0, 0, 0, 0,
      0, 0, 0, 0, 0, 0, 0, 0, 88, 89>>
\* classic, little-endian, one directory with one strip of 180 bytes at 8
FileM ==
    <<73, 73, 42, 0, 188, 0, 0, 0, 1, 2, 3, 4, 5, 6, 7, 1, 2, 3, 4, 5, 6, 7, 1, 2,
      3, 4, 5, 6, 7, 1, 2, 3, 4, 5, 6, 7, 1, 2, 3, 4, 5, 6, 7, 1, 2, 3, 4, 5,
      6, 7, 1, 2, 3, 4, 5, 6, 7, 1, 2, 3, 4, 5, 6, 7, 1, 2, 3, 4, 5, 6, 7, 1,
      2, 3, 4, 5, 6, 7, 1, 2, 3, 4, 5, 6, 7, 1, 2, 3, 4, 5, 6, 7, 1, 2, 3, 4,
      5, 6, 7, 1, 2, 3, 4, 5, 6, 7, 1, 2, 3, 4, 5, 6, 7, 1, 2, 3, 4, 5, 6, 7,
      1, 2, 3, 4, 5, 6, 7, 1, 2, 3, 4, 5, 6, 7, 1, 2, 3, 4, 5, 6, 7, 1, 2, 3,
      4, 5, 6, 7, 1, 2, 3, 4, 5, 6, 7, 1, 2, 3, 4, 5, 6, 7, 1, 2, 3, 4, 5, 6,
      7, 1, 2, 3, 4, 5, 6, 7, 1, 2, 3, 4, 5, 6, 7, 1, 2, 3, 4, 5, 3, 0, 0, 1,
      3, 0, 1, 0, 0, 0, 5, 0, 0, 0, 17, 1, 4, 0, 1, 0, 0, 0, 8, 0, 0, 0, 23, 1,
      4, 0, 1, 0, 0, 0, 180, 0, 0, 0, 0, 0, 0, 0>>

\* classic, little-endian, one directory at 8 with a SubIFD at 38 whose
\* pointer to the next directory is 38, its own offset
FileL ==
    <<73, 73, 42, 0, 8, 0, 0, 0, 2, 0, 0, 1, 3, 0, 1, 0, 0, 0, 5, 0, 0, 0, 74, 1,
      4, 0, 1, 0, 0, 0, 38, 0, 0, 0, 0, 0, 0, 0, 1, 0, 0, 1, 3, 0, 1, 0, 0, 0,
      7, 0, 0, 0, 38, 0, 0, 0>>

\* classic, little-endian, two directories A and B with ImageWidth 1 and 2: the
\* SubIFD tag of A holds two chains of one directory (ImageWidth 3; 4), the
\* SubIFD tag of B one chain of three directories (ImageWidth 5, 6, 7)
FileS ==
    <<73, 73, 42, 0, 8, 0, 0, 0, 2, 0, 0, 1, 3, 0, 1, 0, 0, 0, 1, 0, 0, 0, 74, 1,
      13, 0, 2, 0, 0, 0, 38, 0, 0, 0, 82, 0, 0, 0, 46, 0, 0, 0, 64, 0, 0, 0, 1, 0,
      0, 1, 3, 0, 1, 0, 0, 0, 3, 0, 0, 0, 0, 0, 0, 0, 1, 0, 0, 1, 3, 0, 1, 0,
      0, 0, 4, 0, 0, 0, 0, 0, 0, 0, 2, 0, 0, 1, 3, 0, 1, 0, 0, 0, 2, 0, 0, 0,
      74, 1, 13, 0, 1, 0, 0, 0, 112, 0, 0, 0, 0, 0, 0, 0, 1, 0, 0, 1, 3, 0, 1, 0,
      0, 0, 5, 0, 0, 0, 130, 0, 0, 0, 1, 0, 0, 1, 3, 0, 1, 0, 0, 0, 6, 0, 0, 0,
      148, 0, 0, 0, 1, 0, 0, 1, 3, 0, 1, 0, 0, 0, 7, 0, 0, 0, 0, 0, 0, 0>>
\* classic, little-endian, one directory with ImageWidth 9; the file is kept
\* under a name that ends in ",0"
FileQ ==
    <<73, 73, 42, 0, 8, 0, 0, 0, 1, 0, 0, 1, 3, 0, 1, 0, 0, 0, 9, 0, 0, 0, 0, 0,
      0, 0>>

Catalogue == ("a.tif" :> FileA) @@ ("b.tif" :> FileB) @@ ("c.tif" :> FileC)
             @@ ("m.tif" :> FileM) @@ ("l.tif" :> FileL) @@ ("s.tif" :> FileS)
             @@ ("a.tif,0" :> FileQ)

(***************************************************************************)
(* The program as a state machine: a caller reads a file of the catalogue, *)
(* may edit one tag of the first directory, writes the tree and reads the  *)
(* output back; or reads a path with an IFD selection; or splits a file,   *)
(* whole or with an IFD selection, and concatenates files.                 *)
(***************************************************************************)
NoInfo == [ifds |-> <<>>, path |-> "", size |-> 0, header |-> <<>>, bigEndian |-> FALSE,
           bigtiff |-> FALSE, firstifd |-> 0, ndpi |-> FALSE, err |-> "unread"]

KwDefault == [bigtiff |-> None, bigendian |-> None, ifdsfirst |-> FALSE, dedup |-> FALSE]

\* what is kept of a command: op, its arguments (path: the output path or the
\* split prefix; source: the input paths; kw: bigtiff, bigendian, ifdsfirst,
\* dedup as given), whether the output path existed and its bytes then, the
\* bigtiff the write started with, and the outcome as write_tiff returns it
Command(op, path, source, allowExisting, kw, startBigtiff, before, r) ==
    [op |-> op, path |-> path, source |-> source, allowExisting |-> allowExisting,
     kw |-> kw, startBigtiff |-> startBigtiff,
     existed |-> path \in DOMAIN before,
     prev |-> IF path \in DOMAIN before THEN before[path] ELSE <<>>,
     err |-> r.err, attempts |-> r.attempts, bigtiff |-> r.bigtiff,
     retried |-> r.retried, reused |-> r.reused, wpath |-> r.wpath]

NoCommand == Command("none", "", <<>>, FALSE, KwDefault, FALSE, EmptyDict, Failed(EmptyDict, ""))

\* the names of the commands run so far
Ops == [i \in 1..Len(log) |-> log[i].op]
Logged(op, arg, kw, subifds, err) ==
    Append(log, [op |-> op, arg |-> arg, kw |-> kw, subifds |-> subifds, err |-> err])

Init ==
    /\ td = 0
    /\ disk = Catalogue
    /\ orig = NoInfo /\ tree = NoInfo /\ back = NoInfo
    /\ last = NoCommand
    /\ log = <<>>

\* info = read_tiff(path)
ReadTiff(path) ==
    /\ Ops = <<>>
    /\ tree' = read_tiff(disk, path)
    /\ orig' = tree'
    /\ last' = [NoCommand EXCEPT !.op = "read", !.path = path, !.err = tree'.err]
    /\ log' = Logged("read", path, KwDefault, FALSE, tree'.err)
    /\ UNCHANGED <<td, disk, back>>

\* info = read_tiff(path) of a path with an IFD selection; the caller only
\* looks at what it got
ReadLimited(path) ==
    /\ Ops = <<>>
    /\ tree' = read_tiff(disk, path)
    /\ orig' = tree'
    /\ last' = [NoCommand EXCEPT !.op = "limit", !.path = path, !.err = tree'.err]
    /\ log' = Logged("limit", path, KwDefault, FALSE, tree'.err)
    /\ UNCHANGED <<td, disk, back>>

\* info['ifds'][0]['tags'][tag] = {'datatype': datatype, 'data': data}
SetTag(tag, datatype, data) ==
    /\ Ops = <<"read">> /\ tree.err = "" /\ tree.ifds # <<>>
    /\ tree' = [tree EXCEPT
                  !.ifds[1].tags = DictSet(@, tag, [TagInfo(datatype, 0, 0) EXCEPT !.data = data]),
                  !.ifds[1].tagorder = IF tag \in DOMAIN tree.ifds[1].tags THEN @
                                       ELSE Append(@, tag)]
    /\ orig' = tree'
    /\ last' = [NoCommand EXCEPT !.op = "set"]
    /\ log' = Logged("set", "", KwDefault, FALSE, "")
    /\ UNCHANGED <<td, disk, back>>

\* the edits of the model: a LONG8 and an SLONG8 value at the ends of the
\* 32-bit ranges, an UNDEFINED value of n bytes, a LONG value out of range,
\* one byte count of 0 for the strips
EditLens == {10, 11, 12}
Edits ==
    {<<65001, LONG8, ListData(<<v>>)>> : v \in {Limit32 - 1, Limit32}}
    \cup {<<65002, SLONG8, ListData(<<v>>)>> : v \in {-Limit31 - 1, -Limit31, Limit31}}
    \cup {<<65000, UNDEFINED, BytesData(Zeros(n))>> : n \in EditLens}
    \cup {<<65003, LONG, ListData(<<Limit32>>)>>}
    \cup {<<StripByteCounts, LONG, ListData(<<0>>)>>}

\* write_tiff(info, path, bigEndian, bigtiff, allowExisting, ifdsFirst, dedup)
WriteTiff(path, bigEndian, bigtiff, allowExisting, ifdsFirst, dedup) ==
    /\ Ops \in {<<"read">>, <<"read", "set">>} /\ tree.err = ""
    /\ LET be == IF bigEndian.has THEN bigEndian.v ELSE tree.bigEndian
           bt == IF bigtiff.has THEN bigtiff.v ELSE tree.bigtiff
       IN \E r \in {write_tiff(disk, tree.ifds, path, be, bt, allowExisting, ifdsFirst,
                                dedup)} :
          /\ disk' = r.fs
          /\ tree' = [tree EXCEPT !.ifds = r.ifds]
          /\ last' = Command("write", path, <<>>, allowExisting,
                             [bigtiff |-> bigtiff, bigendian |-> bigEndian,
                              ifdsfirst |-> ifdsFirst, dedup |-> dedup], bt, disk, r)
    /\ log' = Logged("write", path, last'.kw, FALSE, last'.err)
    /\ UNCHANGED <<td, orig, back>>

\* back = read_tiff(path) of the path just written
ReadBack ==
    /\ last.op = "write" /\ last.err = ""
    /\ back' = read_tiff(disk, last.path)
    /\ last' = [last EXCEPT !.op = "readback"]
    /\ log' = Logged("readback", last.path, KwDefault, FALSE, back'.err)
    /\ UNCHANGED <<td, disk, orig, tree>>

\* the output paths of tiff_split(source, prefix) without subifds
SplitNames(prefix, n) == [i \in 1..n |-> _make_split_name(prefix, i - 1, NeededChars(n))]
SplitParts(source, prefix) == SplitNames(prefix, Len(read_tiff(disk, source).ifds))

TiffSplit(source, prefix, subifds, overwrite, kw) ==
    /\ Ops = <<>>
    /\ \E r \in {tiff_split(disk, source, prefix, subifds, overwrite, kw)} :
          /\ disk' = r.fs
          /\ last' = Command("split", prefix, <<source>>, overwrite, kw, FALSE, disk, r)
    /\ log' = Logged("split", source, kw, subifds, last'.err)
    /\ UNCHANGED <<td, orig, tree, back>>

TiffConcat(source, output, overwrite, kw) ==
    /\ Ops \in {<<"split">>, <<"split", "concat">>}
    /\ output \notin DOMAIN disk
    /\ \E r \in {tiff_concat(disk, source, output, overwrite, kw)} :
          /\ disk' = r.fs
          /\ last' = Command("concat", output, source, overwrite, kw, FALSE, disk, r)
    /\ log' = Logged("concat", IF Len(source) = 1 THEN source[1] ELSE "", kw, FALSE, last'.err)
    /\ UNCHANGED <<td, orig, tree, back>>

\* tiff_set(source, output, overwrite, setlist, unset, **kw)
TiffSet(source, output, overwrite, setlist, unset, kw) ==
    /\ \E nativeLong \in NativeLongs :
       \E r \in {tiff_set(disk, source, output, overwrite, setlist, unset, kw, nativeLong)} :
          /\ disk' = r.fs
          /\ last' = Command("tiffset", SetOutput(source, output), <<source>>, overwrite, kw,
                             FALSE, disk, r)
    /\ log' = Append(log, [op |-> "tiffset", arg |-> source, kw |-> kw, subifds |-> FALSE,
                           err |-> last'.err, output |-> output, setlist |-> setlist,
                           unset |-> unset])
    /\ UNCHANGED <<td, orig, tree, back>>

\* the tag specifiers and values the caller sets and unsets
SetSpecs == {"23456", "ImageWidth", "23456,1", "23456:SHORT", "NoTag", "23456:BADTYPE",
             "23456,7"}
UnsetSpecs == {"23456", "ImageWidth", "23456,1", "NoTag"}
SetTexts == {"5", "123 -4567", "abc"}
SetLists == {<<>>} \cup {<< <<tagspec, StrValue(text)>> >> : tagspec \in SetSpecs,
                                                             text \in SetTexts}
UnsetLists == {<<>>} \cup {<<tagspec>> : tagspec \in UnsetSpecs}

Options == {None, Some(FALSE), Some(TRUE)}
\* the paths with an IFD selection the caller reads and splits
SelectPaths == {Join(parts, ",") : parts \in CommaPaths}
KwSet == {KwDefault, [KwDefault EXCEPT !.ifdsfirst = TRUE, !.dedup = TRUE]}

Next ==
    \/ \E path \in DOMAIN Catalogue : ReadTiff(path)
    \/ \E e \in Edits : SetTag(e[1], e[2], e[3])
    \/ \E path \in {"out.tif", tree.path}, bigEndian \in {None, Some(TRUE)},
          bigtiff \in Options, allowExisting, ifdsFirst, dedup \in BOOLEAN :
          /\ (path = "out.tif" => ~allowExisting)
          /\ WriteTiff(path, bigEndian, bigtiff, allowExisting, ifdsFirst, dedup)
    \/ ReadBack
    \/ \E path \in SelectPaths : ReadLimited(path)
    \/ \E source \in DOMAIN Catalogue \cup SelectPaths, subifds \in BOOLEAN, kw \in KwSet :
          TiffSplit(source, "s", subifds, FALSE, kw)
    \/ \E kw \in KwSet :
          \/ /\ last.op = "split" /\ last.err = ""
             /\ TiffConcat(SplitParts(last.source[1], last.path), "joined.tif", FALSE, kw)
          \/ /\ last.op = "concat"
             /\ TiffConcat(<<log[1].arg>>, "direct.tif", FALSE, kw)
    \/ \E source \in {"s.tif", "a.tif"}, output \in {OutputNone, "s.tif", "a.tif", "g.tif"},
          overwrite \in BOOLEAN, setlist \in SetLists, unset \in UnsetLists :
          /\ output \in {OutputNone, source, "g.tif"}
          /\ Ops = <<>>
          /\ (setlist = <<>> \/ unset = <<>>)
          /\ (output = "g.tif" => ~overwrite)
          /\ TiffSet(source, output, overwrite, setlist, unset, KwDefault)
    \/ \E unset \in UnsetLists \ {<<>>} :
          /\ Ops = <<"tiffset">> /\ last.err = "" /\ last.path = "g.tif"
          /\ log[1].setlist # <<>>
          /\ TiffSet("g.tif", "h.tif", FALSE, <<>>, unset, KwDefault)

Spec == Init /\ [][Next]_vars

(***************************************************************************)
(* _tagspec_to_ifd on its own: td holds the size of a C long of the build, *)
(* then the specifier and the value of one call and what it returned.  The *)
(* tree is the one of s.tif.                                               *)
(***************************************************************************)
SetTagspecs ==
    {"23456", "256", "ImageWidth", "imagewidth", "ImageDescription", "Orientation",
     "NoTag", "23456:SHORT", "23456:short", "23456:3", "23456:LONG", "23456:SLONG",
     "23456:BYTE", "23456:ASCII", "23456:DOUBLE", "23456:RATIONAL", "23456:BADTYPE",
     "Orientation:BYTE", "Orientation:LONG"}
    \cup {Join(parts, ",") : parts \in TagspecParts}
SetValues ==
    {StrValue(s) : s \in DOMAIN Utf8}
    \cup {BytesValue(<<255, 0>>), BytesValue(<<86, 97, 108, 117, 101>>), BytesValue(<<53>>)}

TsInit ==
    /\ disk = EmptyDict /\ orig = 0 /\ tree = 0 /\ back = 0 /\ last = 0 /\ log = <<>>
    /\ \E nativeLong \in NativeLongs : td = [nativeLong |-> nativeLong, calls |-> 0]

\* tag, datatype, ifd, data = _tagspec_to_ifd(tagspec, info, value)
TagspecCall(tagspec, value) ==
    /\ UNCHANGED <<disk, orig, tree, back, last, log>>
    /\ td.calls = 0
    /\ td' = [nativeLong |-> td.nativeLong, calls |-> 1, tagspec |-> tagspec,
              value |-> value,
              r |-> _tagspec_to_ifd(tagspec, read_tiff(Catalogue, "s.tif"), value,
                                    td.nativeLong)]

TsNext == \E tagspec \in SetTagspecs, value \in SetValues \cup {NoValue} :
              TagspecCall(tagspec, value)

SpecTagspec == TsInit /\ [][TsNext]_vars

(***************************************************************************)
(* TiffConstant.__eq__ on its own: td holds the constant, what it was      *)
(* compared with and the result.                                           *)
(***************************************************************************)
\* definitions of the registry: Tag.NewSubfileType, Tag.ImageLength,
\* Tag.ImageDescription and Datatype.LONG
Registry ==
    {TiffConstant(254, "NewSubfileType", {"SubfileType", "OSubFileType"}),
     TiffConstant(257, "ImageLength", {"ImageHeight"}),
     TiffConstant(270, "ImageDescription", {}),
     TiffConstant(4, "LONG", {"DWORD"})}
\* constants made by a caller
MadeConstants ==
    {TiffConstant(270, "Different", {}), TiffConstant(270, "ImageDescription", {}),
     TiffConstant(254, "NewSubfileType", {}), TiffConstant(4, "DWORD", {})}
EqWords ==
    {"254", "257", "270", "4", "5", "0xfe", "0x101", "0x10e", "0x10E", "0x4",
     "NewSubfileType", "newsubfiletype", "NEWSUBFILETYPE", "SubfileType", "OSubFileType",
     "ImageLength", "imagelength", "IMAGELENGTH", "ImageHeight",
     "ImageDescription", "imagedescription", "IMAGEDESCRIPTION", "Different",
     "LONG", "long", "Long", "DWORD", "nope"}
EqOthers ==
    Registry \cup MadeConstants \cup {NoneOther}
    \cup {IntOther(n) : n \in {4, 5, 254, 257, 270}}
    \cup {StrOther(word) : word \in EqWords}

EqInit ==
    /\ disk = EmptyDict /\ orig = 0 /\ tree = 0 /\ back = 0 /\ last = 0 /\ log = <<>>
    /\ td = [calls |-> 0]

\* self == other
EqCall(self, other) ==
    /\ UNCHANGED <<disk, orig, tree, back, last, log>>
    /\ td.calls = 0
    /\ td' = [calls |-> 1, self |-> self, other |-> other, eq |-> __eq__(self, other)]

EqNext == \E self \in Registry \cup MadeConstants, other \in EqOthers : EqCall(self, other)

SpecConstant == EqInit /\ [][EqNext]_vars

(***************************************************************************)
(* read_tiff on its own: td holds the file that was read and the tree.     *)
(* The files are classic, little-endian: a directory at 8 with ImageWidth  *)
(* 5, an ImageDescription of count bytes stored at offset, Orientation 1   *)
(* and a SubIFD at 98 (ImageWidth 7); a second directory at 80 with        *)
(* ImageWidth 9; the text "hello" at 62.                                   *)
(***************************************************************************)
DescFile(offset, count) ==
    <<73, 73, 42, 0, 8, 0, 0, 0, 4, 0>>
    \o <<0, 1, 3, 0, 1, 0, 0, 0, 5, 0, 0, 0>>
    \o <<14, 1, 2, 0>> \o LEBytes(count, 4) \o LEBytes(offset, 4)
    \o <<18, 1, 3, 0, 1, 0, 0, 0, 1, 0, 0, 0>>
    \o <<74, 1, 4, 0, 1, 0, 0, 0, 98, 0, 0, 0>>
    \o <<80, 0, 0, 0>>
    \o <<104, 101, 108, 108, 111, 0, 0, 0, 0, 0, 0, 0, 0, 0, 0, 0, 0, 0>>
    \o <<1, 0, 0, 1, 3, 0, 1, 0, 0, 0, 9, 0, 0, 0, 0, 0, 0, 0>>
    \o <<1, 0, 0, 1, 3, 0, 1, 0, 0, 0, 7, 0, 0, 0, 0, 0, 0, 0>>
DescOffsets == {0, 7, 8, 62, 100, 110, 111, 112, 116, 150, 199}
DescCounts == 5..16

RdInit ==
    /\ disk = EmptyDict /\ orig = 0 /\ tree = 0 /\ back = 0 /\ last = 0 /\ log = <<>>
    /\ td = [calls |-> 0]

\* info = read_tiff("t.tif") of the file with these bytes
ReadCall(offset, count) ==
    /\ UNCHANGED <<disk, orig, tree, back, last, log>>
    /\ td.calls = 0
    /\ td' = [calls |-> 1, offset |-> offset, count |-> count,
              info |-> read_tiff("t.tif" :> DescFile(offset, count), "t.tif")]

RdNext == \E offset \in DescOffsets, count \in DescCounts : ReadCall(offset, count)

SpecRead == RdInit /\ [][RdNext]_vars

(***************************************************************************)
(* read_tiff of files with a tag of Hamamatsu NDPI: td holds the           *)
(* parameters of the file and the tree.  The files are classic,            *)
(* little-endian: a directory at 16 with ImageWidth 5 and a tag of 8 bytes *)
(* stored at 8, its pointer to the next directory 8 bytes wide; a second   *)
(* directory at ifdOffset with ImageWidth 9 and the same tag, its 8 bytes  *)
(* stored at data, and tail bytes (4 or 8) for its pointer, which end the  *)
(* file.                                                                   *)
(***************************************************************************)
Filler(from, n) == [i \in 1..n |-> 1 + ((from + i) % 3)]
NdpiFile(ifdOffset, tag, data, tail) ==
    <<73, 73, 42, 0, 16, 0, 0, 0>> \o Filler(8, 8)
    \o <<2, 0, 0, 1, 3, 0, 1, 0, 0, 0, 5, 0, 0, 0>>
    \o LEBytes(tag, 2) \o <<1, 0, 8, 0, 0, 0, 8, 0, 0, 0>>
    \o LEBytes(ifdOffset, 8)
    \o Filler(50, ifdOffset - 50)
    \o <<2, 0, 0, 1, 3, 0, 1, 0, 0, 0, 9, 0, 0, 0>>
    \o LEBytes(tag, 2) \o <<1, 0, 8, 0, 0, 0>> \o LEBytes(data, 4)
    \o Zeros(tail)
\* the offsets of the second directory: files below and above Limit32 bytes
NdpiOffsets == {60, Limit32 - 50, Limit32 - 30, Limit32 + 8, 2 * Limit32 + 20,
                2 * Limit32 + 50}
\* stored offsets, all below Limit32
NdpiStored == {8, 9, 30, Limit32 - 100, Limit32 - 51, Limit32 - 50, Limit32 - 40,
               Limit32 - 1}
\* NDPI_MCU_STARTS, which has ndpi_offset, and a tag that is not registered
NdpiTags == {65426, 65000}

NdInit ==
    /\ disk = EmptyDict /\ orig = 0 /\ tree = 0 /\ back = 0 /\ last = 0 /\ log = <<>>
    /\ td = [calls |-> 0]

\* info = read_tiff("n.tif") of the file with these bytes
NdpiCall(ifdOffset, tag, data, tail) ==
    /\ UNCHANGED <<disk, orig, tree, back, last, log>>
    /\ td.calls = 0
    /\ td' = [calls |-> 1, ifdOffset |-> ifdOffset, tag |-> tag, data |-> data,
              tail |-> tail, size |-> Len(NdpiFile(ifdOffset, tag, data, tail)),
              info |-> read_tiff("n.tif" :> NdpiFile(ifdOffset, tag, data, tail), "n.tif")]

\* without NDPI the pointer to the second directory has 32 bits
NdNext == \E ifdOffset \in NdpiOffsets, tag \in NdpiTags, data \in NdpiStored,
             tail \in {4, 8} :
             /\ (NdpiOffset("Tag", tag) \/ ifdOffset < Limit32)
             /\ NdpiCall(ifdOffset, tag, data, tail)

SpecNdpi == NdInit /\ [][NdNext]_vars

(***************************************************************************)
(* tiff_concat of two files of one directory each, with and without dedup: *)
(* td holds the parameters of the files, the options, the file system and  *)
(* the tree read from the output.  The files are classic, little-endian:   *)
(* two strips of two bytes (at 8 and 10, or shifted to 10 and 12), the     *)
(* StripOffsets array of two LONG at 16, an ImageDescription of 6 bytes at *)
(* 24 and the directory at 30.  x.tif is always the same file; y.tif has   *)
(* its own strips, description and shift.                                  *)
(***************************************************************************)
DedupFile(shift, strip1, strip2, desc) ==
    <<73, 73, 42, 0, 30, 0, 0, 0>>
    \o (IF shift THEN <<0, 0>> \o strip1 \o strip2 \o <<0, 0>>
        ELSE strip1 \o strip2 \o <<0, 0, 0, 0>>)
    \o (IF shift THEN <<10, 0, 0, 0, 12, 0, 0, 0>> ELSE <<8, 0, 0, 0, 10, 0, 0, 0>>)
    \o desc
    \o <<4, 0, 0, 1, 3, 0, 1, 0, 0, 0, 5, 0, 0, 0,
         14, 1, 2, 0, 6, 0, 0, 0, 24, 0, 0, 0,
         17, 1, 4, 0, 2, 0, 0, 0, 16, 0, 0, 0,
         23, 1, 3, 0, 2, 0, 0, 0, 2, 0, 2, 0, 0, 0, 0, 0>>
DedupX == DedupFile(FALSE, <<1, 2>>, <<3, 4>>, <<97, 98, 99, 100, 101, 0>>)
DedupStrips == {<<1, 2>>, <<3, 4>>, <<5, 6>>}
DedupDescs == {<<97, 98, 99, 100, 101, 0>>, <<97, 98, 99, 100, 102, 0>>}
DedupKws == {[KwDefault EXCEPT !.ifdsfirst = ifdsFirst, !.dedup = dedup, !.bigtiff = bigtiff] :
                ifdsFirst, dedup \in BOOLEAN, bigtiff \in {None, Some(TRUE)}}

DdInit ==
    /\ disk = EmptyDict /\ orig = 0 /\ tree = 0 /\ back = 0 /\ last = 0 /\ log = <<>>
    /\ td = [calls |-> 0]

\* tiff_concat(source, "o.tif", **kw) and read_tiff("o.tif")
DedupCall(fs, source, kw) ==
    /\ UNCHANGED <<disk, orig, tree, back, last, log>>
    /\ td.calls = 0
    /\ \E r \in {tiff_concat(fs, source, "o.tif", FALSE, kw)} :
          td' = [calls |-> 1, source |-> source, kw |-> kw, before |-> fs, fs |-> r.fs,
                 err |-> r.err, reused |-> r.reused,
                 info |-> IF r.err = "" THEN read_tiff(r.fs, "o.tif") ELSE NoInfo]

DdNext ==
    \E shift \in BOOLEAN, strip1, strip2 \in DedupStrips, desc \in DedupDescs,
       source \in {<<"x.tif", "y.tif">>, <<"y.tif", "x.tif">>}, kw \in DedupKws :
       DedupCall(("x.tif" :> DedupX) @@ ("y.tif" :> DedupFile(shift, strip1, strip2, desc)),
                 source, kw)

SpecDedup == DdInit /\ [][DdNext]_vars

(***************************************************************************)
(* The names of tiff_split on their own: for a split of numOutput outputs, *)
(* td holds the names made so far for some of the indices, each with the   *)
(* character codes of its counter.                                         *)
(***************************************************************************)
MaxNames == 2
SnOutputs == {1, 2, 26, 27, 676, 677, 17576, 17577}
SnIndices == {0, 1, 25, 26, 27, 675, 676, 17575, 17576}

SnInit ==
    /\ disk = EmptyDict /\ orig = 0 /\ tree = 0 /\ back = 0 /\ last = 0 /\ log = <<>>
    /\ \E numOutput \in SnOutputs : td = [numOutput |-> numOutput, names |-> EmptyDict]

\* outputPath = _make_split_name(prefix, idx, neededChars) of tiff_split
MakeSplitName(idx) ==
    /\ UNCHANGED <<disk, orig, tree, back, last, log>>
    /\ idx < td.numOutput /\ idx \notin DOMAIN td.names
    /\ Cardinality(DOMAIN td.names) < MaxNames
    /\ td' = [td EXCEPT !.names =
                 @ @@ (idx :> [name |-> _make_split_name("s", idx, NeededChars(td.numOutput)),
                               counter |-> SplitCounter(idx, NeededChars(td.numOutput), <<>>)])]

SnNext == \E idx \in SnIndices : MakeSplitName(idx)

SpecSplitName == SnInit /\ [][SnNext]_vars

-----------------------------------------------------------------------------
\* C1: for every input file, tiff_split into one file per top-level directory
\* followed by tiff_concat of those files in index order gives a file that is
\* byte for byte the file tiff_concat gives for the original file alone
\* (all three commands with the default options, none of them failing).
SplitThenConcat ==
    /\ Ops = <<"split", "concat", "concat">>
    /\ ~log[1].subifds
    /\ \A i \in 1..3 : log[i].kw = KwDefault /\ log[i].err = ""
C1_SplitConcatEqualsConcat ==
    SplitThenConcat => disk["joined.tif"] = disk["direct.tif"]

\* C2: for every input file, read_tiff then write_tiff gives an output whose
\* re-read tree equals the original tree: the same directories in the same
\* order, the same nested SubIFD chains, and for every tag the same id,
\* datatype and data, the only datatype change being LONG8 to LONG (SLONG8 to
\* SLONG).  The offsets that point into the file (the values of offset tags and
\* of directory pointers, and the width of their type) are taken as moving
\* with the file: the payload stays under the byte-count tag and the
\* directories under 'ifds', and those are compared.
SameDatatype(a, b) ==
    \/ a = b
    \/ a = LONG8 /\ b = LONG
    \/ a = SLONG8 /\ b = SLONG
RECURSIVE SameChain(_, _, _)
SameChain(tagSet, x, y) ==
    /\ Len(x) = Len(y)
    /\ \A i \in 1..Len(x) :
          /\ DOMAIN x[i].tags = DOMAIN y[i].tags
          /\ \A tag \in DOMAIN x[i].tags :
                LET a == x[i].tags[tag]
                    b == y[i].tags[tag]
                IN /\ a.hasifds = b.hasifds
                   /\ IF a.hasifds
                      THEN /\ Len(a.ifds) = Len(b.ifds)
                           /\ \A k \in 1..Len(a.ifds) :
                                 SameChain(TagTagset(tagSet, tag), a.ifds[k], b.ifds[k])
                      ELSE IF isOffsetData(tagSet, tag)
                      THEN Len(a.data.v) = Len(b.data.v)
                      ELSE SameDatatype(a.datatype, b.datatype) /\ a.data = b.data
ReadWriteReread ==
    /\ Ops = <<"read", "write", "readback">>
    /\ \A i \in 1..3 : log[i].err = ""
C2_RereadTreeEqualsOriginal ==
    ReadWriteReread => SameChain("Tag", orig.ifds, back.ifds)

\* the file system a write_tiff command started on
DiskBefore ==
    IF last.existed THEN DictSet(disk, last.path, last.prev)
    ELSE Unlink(disk, last.path)
\* the bytes write_tiff gives on an empty destination with bigtiff on, for the
\* directories and the options of the last write
FreshBigtiff ==
    LET be == IF last.kw.bigendian.has THEN last.kw.bigendian.v ELSE tree.bigEndian
    IN WriteTiffOpen(FileStream(<<>>, 0), tree.ifds, be, TRUE, last.kw.ifdsfirst,
                     last.kw.dedup, DictSet(DiskBefore, last.wpath, <<>>), 1)
IsWrite == last.op = "write"
Retried == IsWrite /\ last.retried # <<>>

\* C3: a write_tiff whose classic attempt raises MustBeBigTiffError empties the
\* destination (length zero, position zero) and writes the whole file once more
\* with bigtiff on; the retry never raises MustBeBigTiffError, so there are at
\* most two attempts, and the finished file has a BigTIFF header and is the
\* file a write with bigtiff on gives on an empty destination.
C3_RetryOnceForcedBigtiff ==
    IsWrite =>
       /\ last.attempts <= 2
       /\ last.err # MustBeBigTiffError
       /\ last.retried # <<>> =>
             /\ ~last.startBigtiff
             /\ last.attempts = 2 /\ Len(last.retried) = 1
             /\ last.retried[1].dest = FileStream(<<>>, 0)
             /\ last.bigtiff
             /\ last.err = "" =>
                   /\ Slice(disk[last.path], 0, 4) \in {<<73, 73, 43, 0>>, <<77, 77, 0, 43>>}
                   /\ disk[last.path] = FreshBigtiff.dest.buf
\* a write that was retried after bytes beyond the header had been written,
\* and finished
C3_Witness ==
    Retried /\ last.err = "" /\ last.retried[1].len > 8

\* every value of every tag of the directories is in the range of the tag's
\* datatype (so that no value is refused by struct.pack)
ValuesFit(ifds) ==
    \A i \in 1..Len(ifds) : \A tag \in DOMAIN ifds[i].tags :
       LET taginfo == ifds[i].tags[tag]
           pack    == DatatypePack(taginfo.datatype)
       IN (taginfo.data.k = "list" /\ pack # <<>>) =>
             \A n \in 1..Len(taginfo.data.v) :
                LET ch == pack[((n - 1) % Len(pack)) + 1]
                IN taginfo.data.v[n] >= PackMin(ch) /\ taginfo.data.v[n] <= PackMax(ch)
ClassicWrite == IsWrite /\ ~last.startBigtiff /\ ValuesFit(orig.ifds)

\* C4: in a write that starts without bigtiff, an offset that does not fit in
\* 32 bits (of an out-of-line value, of a copied block, of a directory after
\* its alignment padding, of a patched pointer) raises MustBeBigTiffError and
\* the file is written again as BigTIFF; it is never written truncated and
\* never leaves write_tiff as another error: with every tag value in the range
\* of its datatype, the write ends without an error unless the file exists.
C4_ClassicOverflowRaisesMustBeBigTiff ==
    ClassicWrite => last.err \in {"", "File already exists"}

\* some datum of the directories needs more than 32 bits: a LONG8 or IFD8
\* value of Limit32 or more, an SLONG8 value outside [-Limit31, Limit31 - 1],
\* or the offset of a directory or of an out-of-line value of Limit32 or more
RECURSIVE Needs64(_)
Needs64(ifds) ==
    \E i \in 1..Len(ifds) :
       \/ ifds[i].offset >= Limit32
       \/ \E tag \in DOMAIN ifds[i].tags :
             LET taginfo == ifds[i].tags[tag]
             IN \/ taginfo.hasoffset /\ taginfo.offset >= Limit32
                \/ /\ taginfo.data.k = "list"
                   /\ \E n \in 1..Len(taginfo.data.v) :
                         LET x == taginfo.data.v[n]
                         IN \/ taginfo.datatype \in {LONG8, IFD8} /\ x >= Limit32
                            \/ taginfo.datatype = SLONG8 /\ (x < -Limit31 \/ x >= Limit31)
                \/ taginfo.hasifds /\ \E k \in 1..Len(taginfo.ifds) : Needs64(taginfo.ifds[k])

\* C5: a write_tiff that starts with bigtiff false gives a BigTIFF file if and
\* only if some datum of the file written (a LONG8 or SLONG8 value, an offset
\* into the file) needs more than 32 bits, in the data-first and in the
\* IFDs-first layout and whatever the offsets of the source file were.  (Only
\* if: taken for the files written that end below Limit32, where no offset
\* into the file can need more than 32 bits.)
C5_BigtiffIffNeeded ==
    (ReadWriteReread /\ ~last.startBigtiff) =>
       /\ Needs64(back.ifds) => back.bigtiff
       /\ (back.bigtiff /\ back.size < Limit32) => Needs64(back.ifds)

\* do all the values of a LONG8 (SLONG8) tag fit the unsigned (signed) 32-bit
\* type
FitsLong(x) == 0 <= x /\ x < Limit32
AllFit32(datatype, data) ==
    \A n \in 1..Len(data) :
       IF datatype = LONG8 THEN FitsLong(data[n]) ELSE FitsSLongRange(data[n])

\* C6: when a file is written without bigtiff, a LONG8 tag whose values all
\* lie in [0, Limit32 - 1] is written as LONG and an SLONG8 tag whose values
\* all lie in [-Limit31, Limit31 - 1] is written as SLONG; MustBeBigTiffError
\* is raised for the tag only when one of its values does not fit.
C6_DowngradeWheneverValuesFit ==
    (IsWrite /\ ~last.startBigtiff) =>
       \A i \in 1..Len(orig.ifds) : \A tag \in DOMAIN orig.ifds[i].tags :
          LET taginfo == orig.ifds[i].tags[tag]
              written == _adjustTaginfoForNonBigtiff(FALSE, taginfo.datatype, taginfo.data.v)
          IN (taginfo.datatype \in {LONG8, SLONG8} /\ taginfo.data.k = "list") =>
                IF AllFit32(taginfo.datatype, taginfo.data.v)
                THEN written = (IF taginfo.datatype = LONG8 THEN LONG ELSE SLONG)
                ELSE written = 0

\* the bytes the write_tiff of a step gives at a path that does not exist
\* (tree and disk before the step, the options of the step)
WrittenAfresh ==
    LET kw == last'.kw
        be == IF kw.bigendian.has THEN kw.bigendian.v ELSE tree.bigEndian
        r  == write_tiff(disk, tree.ifds, "afresh.tif", be, last'.startBigtiff, FALSE,
                         kw.ifdsfirst, kw.dedup)
    IN r.fs["afresh.tif"]

\* C9: write_tiff on a path that exists, with allowExisting, writes to a
\* temporary sibling (a file that did not exist) and copies it over the
\* destination only when the whole write succeeded; when the write fails the
\* temporary file is removed and the destination, like every other file, keeps
\* its bytes.  In both cases no temporary file is left.
C9_OverwriteThroughTemporary ==
    [][(last'.op = "write" /\ last'.existed /\ last'.allowExisting) =>
          /\ last'.wpath # last'.path
          /\ last'.wpath \notin DOMAIN disk
          /\ DOMAIN disk' = DOMAIN disk
          /\ \A p \in DOMAIN disk : p # last'.path => disk'[p] = disk[p]
          /\ IF last'.err # "" THEN disk'[last'.path] = disk[last'.path]
             ELSE disk'[last'.path] = WrittenAfresh]_vars
\* a write over an existing file that failed with struct.error, after the
\* header and the payload had been written to the temporary file; the
\* destination has its previous bytes
C9_Witness ==
    /\ IsWrite /\ last.existed /\ last.allowExisting
    /\ last.err = "struct.error"
    /\ disk[last.path] = last.prev /\ last.prev # <<>>

\* C10: write_tiff on a path that exists, without allowExisting, raises
\* 'File already exists' before anything is written: no attempt is made, the
\* file keeps its bytes and no file is created.
C10_ExistingFileRefused ==
    [][(last'.op = "write" /\ last'.existed /\ ~last'.allowExisting) =>
          /\ last'.err = "File already exists"
          /\ last'.attempts = 0
          /\ disk' = disk]_vars
\* a write refused because the file exists
C10_Witness ==
    /\ IsWrite /\ last.existed /\ ~last.allowExisting
    /\ last.err = "File already exists"
    /\ disk[last.path] = last.prev /\ last.prev # <<>>

\* the files the last command wrote
Outputs ==
    IF last.op = "split" THEN DOMAIN disk \ DOMAIN Catalogue ELSE {last.path}
Wrote == last.op \in {"write", "split", "concat"} /\ last.err = ""
\* the offsets of the directories of a tree, those of the child directories
\* of every tag included
RECURSIVE DirOffsets(_)
DirOffsets(ifds) ==
    UNION {{ifds[i].offset}
           \cup UNION {UNION {DirOffsets(ifds[i].tags[tag].ifds[k]) :
                                 k \in 1..Len(ifds[i].tags[tag].ifds)} :
                          tag \in {t \in DOMAIN ifds[i].tags : ifds[i].tags[t].hasifds}} :
           i \in 1..Len(ifds)}

\* C11: after a write (write_tiff, tiff_split, tiff_concat; data first or
\* IFDs first, with or without dedup) every directory of every file written,
\* top-level or child directory, begins at an even offset of the file.
C11_DirectoriesAtEvenOffsets ==
    Wrote => \A p \in Outputs : \A o \in DirOffsets(read_tiff(disk, p).ifds) : o % 2 = 0
\* a file written IFDs first with a value of 11 bytes out of line in its
\* first directory, which has child directories after it
C11_Witness ==
    /\ IsWrite /\ last.err = "" /\ last.kw.ifdsfirst
    /\ 65000 \in DOMAIN tree.ifds[1].tags
    /\ Len(tree.ifds[1].tags[65000].data.v) = 11
    /\ Cardinality(DirOffsets(read_tiff(disk, last.path).ifds)) >= 3
    /\ \A o \in DirOffsets(read_tiff(disk, last.path).ifds) : o % 2 = 0

\* the pointer to the next directory as the file holds it after the entries
\* of the directory ifd
NextPointer(buf, ifd) ==
    LET pos == ifd.offset + (IF ifd.bigtiff THEN 8 + 20 * ifd.tagcount
                             ELSE 2 + 12 * ifd.tagcount)
    IN UnpackOne(ifd.bigEndian, IF ifd.bigtiff THEN "Q" ELSE "L",
                 Slice(buf, pos, pos + (IF ifd.bigtiff THEN 8 ELSE 4)))
\* the byte counts of the blocks of an offsets tag of a directory
BlockLengths(ifd, tag) ==
    IF BytecountsIsTag(tag)
    THEN IF Bytecounts(tag) \in DOMAIN ifd.tags /\ ifd.tags[Bytecounts(tag)].data.k = "list"
         THEN ifd.tags[Bytecounts(tag)].data.v
         ELSE <<>>
    ELSE [n \in 1..Len(ifd.tags[tag].data.v) |-> Bytecounts(tag)]
\* the offsets a chain of directories of the file holds, each with the number
\* of bytes it refers to (1 for a directory): of each directory and of the
\* one after it, of the values that are not in their entry, of the child
\* directories and of the payload blocks
RECURSIVE StoredOffsets(_, _, _)
StoredOffsets(buf, tagSet, ifds) ==
    UNION {{<<ifds[i].offset, 1>>, <<NextPointer(buf, ifds[i]), 1>>}
           \cup UNION {LET taginfo == ifds[i].tags[tag]
                           lengths == BlockLengths(ifds[i], tag)
                       IN (IF taginfo.hasoffset
                           THEN {<<taginfo.offset,
                                   taginfo.count * DatatypeSize(taginfo.datatype)>>}
                           ELSE {})
                          \cup (IF taginfo.data.k = "list" /\ taginfo.hasifds
                                THEN {<<taginfo.data.v[n], 1>> : n \in 1..Len(taginfo.data.v)}
                                ELSE {})
                          \cup (IF taginfo.data.k = "list" /\ isOffsetData(tagSet, tag)
                                THEN {<<taginfo.data.v[n],
                                        IF n \in DOMAIN lengths THEN lengths[n] ELSE 1>> :
                                         n \in 1..Len(taginfo.data.v)}
                                ELSE {})
                          \cup UNION {StoredOffsets(buf, TagTagset(tagSet, tag), taginfo.ifds[k]) :
                                         k \in 1..Len(taginfo.ifds)} :
                       tag \in DOMAIN ifds[i].tags} :
           i \in 1..Len(ifds)}
\* the offsets of a file, the pointers that are 0 (no next directory, a block
\* that was not copied) aside
FileOffsets(p) ==
    {e \in {<<read_tiff(disk, p).firstifd, 1>>}
           \cup StoredOffsets(disk[p], "Tag", read_tiff(disk, p).ifds) : e[1] # 0}

TdOutside(t, i) ==
    /\ t.offsets[i] # 0
    /\ (t.offsets[i] < 8 \/ t.offsets[i] + t.lengths[i] > Len(TdSrc(t.srcname).buf))
\* the entries of s (one per block of the call t) of the blocks from i on
\* that are not outside the source
RECURSIVE TdInsideOnly(_, _, _)
TdInsideOnly(t, s, i) ==
    IF i > Len(s) THEN <<>>
    ELSE (IF TdOutside(t, i) THEN <<>> ELSE <<s[i]>>) \o TdInsideOnly(t, s, i + 1)
\* the call td' without its blocks outside the source, on the destination
\* and the dedup record the call started with
TdCallInsideOnly ==
    write_tag_data(td.dest, TdSrc(td'.srcname), TdInsideOnly(td', td'.offsets, 1),
                   TdInsideOnly(td', td'.lengths, 1), Len(TdSrc(td'.srcname).buf), td.dedup)

\* C13: a block of write_tag_data whose source offset and length lie outside
\* the source file does not end the call with an error; its destination
\* offset is 0, and the destination offsets of the other blocks and the
\* bytes written to the destination are those of the same call made without
\* the block.
C13_OutsideBlockSkipped ==
    [][(td'.calls = td.calls + 1 /\ Len(td'.offsets) = Len(td'.lengths)) =>
          /\ td'.err = ""
          /\ Len(td'.destOffsets) = Len(td'.offsets)
          /\ \A i \in 1..Len(td'.offsets) : TdOutside(td', i) => td'.destOffsets[i] = 0
          /\ TdInsideOnly(td', td'.destOffsets, 1) = TdCallInsideOnly.destOffsets
          /\ td'.dest = TdCallInsideOnly.dest
          /\ td'.dedup = TdCallInsideOnly.dedup]_vars
\* a call with a block outside the source between two blocks that are copied
C13_Witness ==
    /\ td.calls > 0 /\ td.err = "" /\ Len(td.offsets) = 3
    /\ TdOutside(td, 2) /\ td.destOffsets[2] = 0
    /\ \A i \in {1, 3} : TdReadable(i) /\ td.lengths[i] > 0 /\ td.destOffsets[i] >= td.start
    /\ td.destOffsets[1] # td.destOffsets[3]
    /\ td.dest.len = td.start + td.lengths[1] + td.lengths[3]

\* the directories of ifds in which the offsets tag 'tag' and its byte-count
\* tag both hold a list and the lists differ in length
CountsDiffer(ifds, tag) ==
    {i \in 1..Len(ifds) :
        /\ tag \in DOMAIN ifds[i].tags /\ Bytecounts(tag) \in DOMAIN ifds[i].tags
        /\ ifds[i].tags[tag].data.k = "list"
        /\ ifds[i].tags[Bytecounts(tag)].data.k = "list"
        /\ Len(ifds[i].tags[tag].data.v) # Len(ifds[i].tags[Bytecounts(tag)].data.v)}
\* the two bytes of the source file at each offset of the tag: what a copy
\* of a block of the tag starts with
BlockStarts(buf, offsets) ==
    {Slice(buf, offsets[n], offsets[n] + 2) : n \in 1..Len(offsets)}
Contains(buf, run) ==
    \E k \in 0..(Len(buf) - Len(run)) : Slice(buf, k, k + Len(run)) = run
\* a write_tiff that was not refused because the file exists
WriteTried == IsWrite /\ ~(last.existed /\ ~last.allowExisting)

\* C14: a write_tiff of a tree with a directory in which StripOffsets and
\* StripByteCounts hold different numbers of elements fails with 'Offsets
\* and byte counts do not correspond', and no block of the tag is copied:
\* the file the write leaves holds the first bytes of none of its blocks.
C14_CountsMismatchIsFatal ==
    (WriteTried /\ CountsDiffer(tree.ifds, StripOffsets) # {}) =>
       /\ last.err = "Offsets and byte counts do not correspond."
       /\ last.wpath \in DOMAIN disk =>
             \A i \in CountsDiffer(tree.ifds, StripOffsets) :
                \A run \in BlockStarts(Catalogue[tree.path],
                                       tree.ifds[i].tags[StripOffsets].data.v) :
                   ~Contains(disk[last.wpath], run)
\* a write of a.tif with two strip offsets and one byte count, data first,
\* which failed after the header and a value out of line had been written
C14_Witness ==
    /\ WriteTried /\ 1 \in CountsDiffer(tree.ifds, StripOffsets)
    /\ Len(tree.ifds[1].tags[StripOffsets].data.v) = 2
    /\ last.err = "Offsets and byte counts do not correspond."
    /\ ~last.kw.ifdsfirst
    /\ last.wpath \in DOMAIN disk /\ Len(disk[last.wpath]) > 8

\* C15: read_tiff ends on every input file, also when the pointers to the
\* next directory of a SubIFD chain lead back to a directory of the chain:
\* no read of the catalogue goes on reading directories without end (the
\* reader of the model gives up, as 'unending', after MaxIfdReads
\* directories; the files of the catalogue hold at most three).
C15_ReadTiffTerminates ==
    \A i \in 1..Len(log) : log[i].err # "unending"


(***************************************************************************)
(* C16: read_tiff uses the whole path string as the file when a file of    *)
(* that name exists, and then applies no IFD limit; only when there is no  *)
(* such file does it cut the string at commas from the right and take the  *)
(* first (longest) prefix that exists as the file and the parts cut off as *)
(* the limit list.                                                         *)
(***************************************************************************)
\* the last command was a read_tiff of last.path that returned tree
ReadDone == last.op \in {"read", "limit"}
\* the path the limit list of a view was cut off from
PathOfView(info, n) == Join(<<info.path>> \o SubSeq(info.ifdReduction, 1, n), ",")
C16_LiteralPathPreferred ==
    ReadDone =>
        IF last.path \in DOMAIN disk
        THEN tree = ReadTiffAt(disk, last.path)
        ELSE tree.err = "" =>
                /\ "ifdReduction" \in DOMAIN tree
                /\ tree.path \in DOMAIN disk
                /\ PathOfView(tree, Len(tree.ifdReduction)) = last.path
                /\ \A n \in 1..(Len(tree.ifdReduction) - 1) :
                       PathOfView(tree, n) \notin DOMAIN disk


(***************************************************************************)
(* C17: a limit list applied to the tree read from a file selects: for     *)
(* `,k` the one directory k of the file with all it holds; for             *)
(* `,k,[tag:]j` the whole chain j of the named tag of directory k (SubIFD  *)
(* if no tag is named; the tag by name, decimal or hexadecimal number);    *)
(* for `,k,[tag:]j,m` the one directory m of that chain.                   *)
(***************************************************************************)
\* a read_tiff with an IFD selection returned the view tree
Selected == ReadDone /\ tree.err = "" /\ "ifdReduction" \in DOMAIN tree
\* the ways to write chain j of the SubIFD tag in a limit list
SubIFDForms(j) == {ToString(j), "SubIFD:" \o ToString(j), "330:" \o ToString(j),
                   "0x14a:" \o ToString(j)}
MaxIndex == 3
\* ifds is chain j of the SubIFD tag of directory k of whole
IsChain(whole, k, j, ifds) ==
    /\ k < Len(whole) /\ SubIFD \in DOMAIN whole[k + 1].tags
    /\ j < Len(whole[k + 1].tags[SubIFD].ifds)
    /\ ifds = whole[k + 1].tags[SubIFD].ifds[j + 1]
C17_LimitListSelects ==
    Selected =>
        \A k, j, m \in 0..MaxIndex :
           LET whole == ReadTiffAt(disk, tree.path).ifds
               r     == tree.ifdReduction
           IN /\ r = <<ToString(k)>> => k < Len(whole) /\ tree.ifds = <<whole[k + 1]>>
              /\ (Len(r) = 2 /\ r[1] = ToString(k) /\ r[2] \in SubIFDForms(j))
                    => IsChain(whole, k, j, tree.ifds)
              /\ (Len(r) = 3 /\ r[1] = ToString(k) /\ r[2] \in SubIFDForms(j)
                             /\ r[3] = ToString(m))
                    => /\ k < Len(whole) /\ SubIFD \in DOMAIN whole[k + 1].tags
                       /\ j < Len(whole[k + 1].tags[SubIFD].ifds)
                       /\ m < Len(whole[k + 1].tags[SubIFD].ifds[j + 1])
                       /\ tree.ifds = <<whole[k + 1].tags[SubIFD].ifds[j + 1][m + 1]>>
C17_Witness ==
    /\ Selected /\ last.path = "s.tif,1,0x14a:0,1"
    /\ Len(tree.ifds) = 1 /\ tree.ifds[1].tags[256].data.v = <<6>>
    /\ Len(ReadTiffAt(disk, "s.tif").ifds[2].tags[SubIFD].ifds[1]) = 3


(***************************************************************************)
(* C18: s.tif has the directories [A, B] and the SubIFD tag of B holds the *)
(* single chain [b0, b1, b2].  As stated: `split s.tif,1,SubIFD:1 s`       *)
(* writes exactly one output file, saaa.tif, which holds b1 only and has   *)
(* no SubIFD tag.  As the code has it: `split s.tif,1,SubIFD:0,1 s` does.  *)
(***************************************************************************)
\* the split of source has run and was the last command
SplitDone(source) == last.op = "split" /\ last.source = <<source>>
\* the chain [b0, b1, b2] of s.tif
ChainOfB == ReadTiffAt(Catalogue, "s.tif").ifds[2].tags[SubIFD].ifds[1]
\* the split wrote the one file saaa.tif, which holds b1 only, without SubIFD
OnlyB1Written ==
    /\ last.err = ""
    /\ Outputs = {"saaa.tif"}
    /\ LET out == read_tiff(disk, "saaa.tif")
       IN /\ out.err = "" /\ Len(out.ifds) = 1
          /\ DOMAIN out.ifds[1].tags = DOMAIN ChainOfB[2].tags
          /\ \A t \in DOMAIN out.ifds[1].tags :
                 out.ifds[1].tags[t].data = ChainOfB[2].tags[t].data
          /\ SubIFD \notin DOMAIN out.ifds[1].tags
C18_SplitSubIFD1 == SplitDone("s.tif,1,SubIFD:1") => OnlyB1Written
C18_SplitSubIFD0Dir1 == SplitDone("s.tif,1,SubIFD:0,1") => OnlyB1Written
C18_Witness ==
    /\ SplitDone("s.tif,1,SubIFD:0,1") /\ OnlyB1Written
    /\ Len(ReadTiffAt(Catalogue, "s.tif").ifds) = 2
    /\ Len(ReadTiffAt(Catalogue, "s.tif").ifds[2].tags[SubIFD].ifds) = 1
    /\ Len(ChainOfB) = 3
    /\ read_tiff(disk, "saaa.tif").ifds[1].tags[256].data.v = <<6>>


(***************************************************************************)
(* C19: a read with an IFD selection returns a view only if every index of *)
(* the selection is one of 0..n-1 for the list it indexes: the directories *)
(* of the file, the chains of the named tag, the directories of the chain. *)
(***************************************************************************)
\* the number a limit record gives, after the tag and ':' if it names one
IndexOf(record) ==
    ParseInt(IF HasColon(record) THEN SplitColon(record)[2] ELSE record).v
\* the tag a limit record names
TagOf(record) ==
    get_or_create_tag(IF HasColon(record) THEN SplitColon(record)[1] ELSE "SubIFD", "Tag").v
\* the indices of the records r exist, r[1] indexing the directories ifds
RECURSIVE IndicesExist(_, _)
IndicesExist(ifds, r) ==
    \/ r = <<>>
    \/ /\ IndexOf(r[1]) \in 0..(Len(ifds) - 1)
       /\ \/ Len(r) = 1
          \/ /\ TagOf(r[2]) \in DOMAIN ifds[IndexOf(r[1]) + 1].tags
             /\ IndexOf(r[2]) \in 0..(Len(ifds[IndexOf(r[1]) + 1].tags[TagOf(r[2])].ifds) - 1)
             /\ IndicesExist(ifds[IndexOf(r[1]) + 1].tags[TagOf(r[2])].ifds[IndexOf(r[2]) + 1],
                             SubSeq(r, 3, Len(r)))
C19_MissingIndexFails ==
    Selected => IndicesExist(ReadTiffAt(disk, tree.path).ifds, tree.ifdReduction)


(***************************************************************************)
(* C20: for a split of n outputs, output i is named prefix, then a counter *)
(* of i in lowercase letters of base 26 ('a' is 0, most significant letter *)
(* first), then '.tif'; the counter has max(3, the least k with 26^k >= n) *)
(* letters; the names of two indices differ and sort in index order.       *)
(***************************************************************************)
\* the least k with 26^k >= n
LeastPower26(n) == CHOOSE k \in 0..6 : 26 ^ k >= n /\ \A j \in 0..(k - 1) : 26 ^ j < n
\* the letters with the character codes
RECURSIVE Text(_)
Text(codes) == IF codes = <<>> THEN "" ELSE Letters[Head(codes) - 96] \o Text(Tail(codes))
\* a sorts before b, both of one length
LexLess(a, b) ==
    \E p \in 1..Len(a) : a[p] < b[p] /\ \A q \in 1..(p - 1) : a[q] = b[q]
C20_SplitNames ==
    LET k == Max(3, LeastPower26(td.numOutput))
    IN /\ \A i \in DOMAIN td.names :
            /\ i \in 0..(td.numOutput - 1)
            /\ Len(td.names[i].counter) = k
            /\ \A p \in 1..k : td.names[i].counter[p] = 97 + ((i \div (26 ^ (k - p))) % 26)
            /\ td.names[i].name = "s" \o Text(td.names[i].counter) \o ".tif"
       /\ \A i, j \in DOMAIN td.names :
            i < j => /\ td.names[i].name # td.names[j].name
                     /\ LexLess(td.names[i].counter, td.names[j].counter)
C20_Witness ==
    /\ td.numOutput = 17577 /\ DOMAIN td.names = {675, 17576}
    /\ td.names[675].name = "saazz.tif" /\ td.names[17576].name = "sbaaa.tif"


(***************************************************************************)
(* tiff_set: the datatype of a value                                       *)
(***************************************************************************)
\* the size in bytes of 'L' and 'l' in a file, struct's standard size
StandardLong == 4
\* the datatypes that can represent every element of the value
Representing(value) == DOMAIN _value_to_types(value, StandardLong)
\* one call of _tagspec_to_ifd has returned
TagspecDone == td.calls = 1
\* a call for a tag that has no registered datatype, without a datatype in
\* the specifier, with a value, that did not raise
Untyped == TagspecDone /\ td.tagspec = "23456" /\ td.value.k # "none" /\ td.r.err = ""

\* C21: for a tag with no registered datatype and no datatype in the
\* specifier, the value is stored with the first datatype of the order BYTE,
\* SHORT, LONG, LONG8, SBYTE, SSHORT, SLONG, SLONG8, DOUBLE, ASCII that can
\* represent every element of it, with UNDEFINED when none can; the value
\* "123 -4567" is stored as SSHORT [123, -4567].
C21_FirstRepresenting ==
    Untyped =>
       /\ td.r.datatype = FirstIn(DatatypeOrder, Representing(td.value), UNDEFINED)
       /\ td.value = StrValue("123 -4567") =>
             /\ td.r.datatype = SSHORT
             /\ td.r.data = SetNums(IntList(<<"123", "-4567">>))


\* the specifier of the call without its ifdspec, and its datatype word
TagWord == SplitTagspec(td.tagspec)[1]
NamedWord == SplitColon(TagWord)[2]
\* a call with a value and a datatype in the specifier whose directory exists
Named ==
    /\ TagspecDone /\ td.value.k # "none" /\ HasColon(TagWord)
    /\ td.r.err \notin {"IndexError", "ValueError"}

\* C22: a datatype named in the specifier that cannot represent the value
\* makes set fail with 'cannot be converted', and a datatype name that is not
\* known makes it fail with 'Unknown datatype'.
C22_NamedDatatypeErrors ==
    Named =>
       /\ ~DatatypeOf(NamedWord).ok => td.r.err = "Unknown datatype"
       /\ (DatatypeOf(NamedWord).ok /\ DatatypeOf(NamedWord).v \notin Representing(td.value))
             => td.r.err = "cannot be converted"


(***************************************************************************)
(* tiff_set: set then unset, and the output that is the source             *)
(***************************************************************************)
\* the tag and the directory a specifier selects in a tree
TargetOf(tagspec, info) == _tagspec_to_ifd(tagspec, info, NoValue, 0)
\* the source f of the first tiff_set and the tree of a file on disk
SetSourceTree == read_tiff(Catalogue, log[1].arg)
TreeOf(path) == read_tiff(disk, path)
\* the tag numbers of directory i of a tree
TagsAt(info, i) == DOMAIN info.ifds[i].tags
\* tiff_set(f, "g.tif", set T V) and tiff_set("g.tif", "h.tif", unset T) have
\* both returned, T naming the same tag of the same directory in both
SetTarget == TargetOf(log[1].setlist[1][1], SetSourceTree)
SetThenUnset ==
    /\ Ops = <<"tiffset", "tiffset">> /\ last.err = ""
    /\ log[1].setlist # <<>> /\ log[2].unset # <<>>
    /\ TargetOf(log[2].unset[1], SetSourceTree).err = ""
    /\ TargetOf(log[2].unset[1], SetSourceTree).tag = SetTarget.tag
    /\ TargetOf(log[2].unset[1], SetSourceTree).ifd = SetTarget.ifd
SameTagsAsSource ==
    /\ TreeOf("h.tif").err = ""
    /\ TagsAt(TreeOf("h.tif"), SetTarget.ifd) = TagsAt(SetSourceTree, SetTarget.ifd)

\* C23: tiff_set(f, g, set T V) followed by tiff_set(g, h, unset T) leaves h
\* with the same set of tags as f at the selected IFD, for every tag T.
C23_SetUnsetSameTags == SetThenUnset => SameTagsAsSource

\* C23 (amended): the same, for a tag T that f does not have at the selected
\* IFD.
C23_SetUnsetAbsentTag ==
    (SetThenUnset /\ SetTarget.tag \notin TagsAt(SetSourceTree, SetTarget.ifd))
       => SameTagsAsSource
\* a tag that f does not have was set in the second directory and unset again
C23_Witness ==
    /\ SetThenUnset /\ SetTarget.tag \notin TagsAt(SetSourceTree, SetTarget.ifd)
    /\ SetTarget.ifd = 2
    /\ SetTarget.tag \in TagsAt(TreeOf("g.tif"), 2)


\* one tiff_set whose output is its source has returned: output omitted or
\* the same path
SetSelf ==
    /\ Ops = <<"tiffset">>
    /\ SetOutput(log[1].arg, log[1].output) = log[1].arg
\* what the same call writes to a path that does not exist
SetFresh(nativeLong) ==
    tiff_set(Catalogue, log[1].arg, "new.tif", FALSE, log[1].setlist, log[1].unset,
             log[1].kw, nativeLong)
\* the source holds the complete new file
SourceReplaced ==
    \E nativeLong \in NativeLongs :
       /\ SetFresh(nativeLong).err = ""
       /\ disk[log[1].arg] = SetFresh(nativeLong).fs["new.tif"]

\* C24: when the output of tiff_set is the source file, the call either fails
\* and leaves the source byte-for-byte unchanged (always when overwrite is
\* false, and on any error while the new file is built) or replaces the
\* content of the source with the complete new file; the temporary file it
\* wrote is not left behind.
C24_SelfOverwrite ==
    SetSelf =>
       /\ ~last.allowExisting => last.err # ""
       /\ last.err # "" => disk[log[1].arg] = Catalogue[log[1].arg]
       /\ last.err = "" => SourceReplaced
       /\ DOMAIN disk = DOMAIN Catalogue
\* the output was omitted and the source now holds a file with a new tag
C24_Witness ==
    /\ SetSelf /\ log[1].output = OutputNone /\ last.err = ""
    /\ log[1].setlist # <<>>
    /\ disk[log[1].arg] # Catalogue[log[1].arg]
    /\ 23456 \in TagsAt(TreeOf(log[1].arg), 1)


(***************************************************************************)
(* TiffConstant: equality                                                  *)
(***************************************************************************)
\* one comparison of a definition of the registry has been made
EqDone == td.calls = 1 /\ td.self \in Registry
\* other is the id of self, its decimal or its 0x-hex string, its name in
\* some letter case, one of its aliases, or a definition of the same id and
\* name
EqualForm(self, other) ==
    \/ other.k = "int" /\ other.value = self.value
    \/ /\ other.k = "str"
       /\ \/ other.name = ToString(self.value)
          \/ other.name \in DOMAIN HexWords /\ HexWords[other.name] = self.value
          \/ Upper(other.name) = Upper(self.name)
          \/ other.name \in self.altnames
    \/ other.k = "const" /\ other.value = self.value /\ other.name = self.name

\* C25: a tag definition compares equal to its integer id, to the decimal and
\* the 0x-hex string of its id, to its name in any letter case, to each of
\* its aliases and to another definition with the same id and name; it
\* compares unequal to a definition with the same id and a different name.
C25_DefinitionEquality ==
    EqDone =>
       /\ EqualForm(td.self, td.other) => td.eq
       /\ (td.other.k = "const" /\ td.other.value = td.self.value
           /\ td.other.name # td.self.name) => ~td.eq


(***************************************************************************)
(* read_tiff: a value that fails the bounds check                          *)
(***************************************************************************)
\* a file was read whose ImageDescription does not pass check_offset
BadDescRead ==
    /\ td.calls = 1
    /\ ~check_offset(Len(DescFile(td.offset, td.count)), td.offset, td.count)
\* the tags of the first directory that was read
DescTags == td.info.ifds[1].tags

\* C26: when the out-of-line value of one tag fails the bounds check, only
\* that tag is left without data: every other tag of the directory, also the
\* ones after it, has its data, their sub-IFDs are read, and the read
\* completes with the directories that follow.
C26_OnlyBadTagEmpty ==
    BadDescRead =>
       /\ td.info.err = "" /\ Len(td.info.ifds) = 2
       /\ DescTags[270].data = NoData
       /\ DescTags[256].data = ListData(<<5>>)
       /\ DescTags[274].data = ListData(<<1>>)
       /\ DescTags[SubIFD].data = ListData(<<98>>)
       /\ DescTags[SubIFD].hasifds /\ Len(DescTags[SubIFD].ifds) = 1
       /\ td.info.ifds[2].tags[256].data = ListData(<<9>>)


(***************************************************************************)
(* read_tiff: NDPI offsets                                                 *)
(***************************************************************************)
\* a file of at least 2^32 bytes was read whose tag has ndpi_offset; the
\* directory the claim is about is the second one, at td.ifdOffset
NdpiMode == td.calls = 1 /\ td.size >= Limit32 /\ NdpiOffset("Tag", td.tag)
\* the 'offset' of the tag in the tree
Widened == td.info.ifds[2].tags[td.tag].offset

\* C27: in NDPI mode a stored offset D below the offset I of the directory is
\* widened to I - ((I - D) mod 2^32), which is congruent to D modulo 2^32, at
\* most I and less than 2^32 below I; an offset D >= I is left unchanged; from
\* then on the pointers to the next directory are read as 64-bit values, so
\* that a second directory with only 4 bytes left for its pointer cannot be
\* read.
C27_NdpiWidened ==
    NdpiMode =>
       /\ td.tail = 4 => td.info.err = "struct.error"
       /\ td.tail = 8 =>
             /\ td.info.err = "" /\ td.info.ndpi /\ Len(td.info.ifds) = 2
             /\ td.data < td.ifdOffset =>
                   /\ Widened = td.ifdOffset - ((td.ifdOffset - td.data) % Limit32)
                   /\ Widened % Limit32 = td.data % Limit32
                   /\ Widened <= td.ifdOffset /\ td.ifdOffset - Widened < Limit32
             /\ td.data >= td.ifdOffset => Widened = td.data
\* an offset was widened by twice 2^32 and the 8 bytes there were read
C27_Witness ==
    /\ NdpiMode /\ td.tail = 8 /\ td.info.err = ""
    /\ Widened = td.data + 2 * Limit32
    /\ td.info.ifds[2].tags[td.tag].data = ListData(Filler(Widened, 8))

(***************************************************************************)
(* write_tiff: IFDs first against data first                               *)
(***************************************************************************)
\* the bytes block n of an offsets tag of a directory points at in the file
\* buf; a pointer of 0 is a block that was not copied
BlockBytes(buf, ifd, tag, n) ==
    IF ifd.tags[tag].data.v[n] = 0 \/ n > Len(BlockLengths(ifd, tag)) THEN <<>>
    ELSE Slice(buf, ifd.tags[tag].data.v[n],
               ifd.tags[tag].data.v[n] + BlockLengths(ifd, tag)[n])
\* the chains x of the file bufx and y of the file bufy hold the same
\* directories: the same tags with the same datatype and data, the same
\* child directories, and offset tags that point at the same bytes (the
\* offsets, and the type they and the directory pointers are stored with, move
\* with the file)
RECURSIVE SameWritten(_, _, _, _, _)
SameWritten(tagSet, x, bufx, y, bufy) ==
    /\ Len(x) = Len(y)
    /\ \A i \in 1..Len(x) :
          /\ DOMAIN x[i].tags = DOMAIN y[i].tags
          /\ \A tag \in DOMAIN x[i].tags :
                LET a == x[i].tags[tag]
                    b == y[i].tags[tag]
                IN /\ a.hasifds = b.hasifds /\ a.data.k = b.data.k
                   /\ IF a.hasifds
                      THEN /\ Len(a.ifds) = Len(b.ifds)
                           /\ \A k \in 1..Len(a.ifds) :
                                 SameWritten(TagTagset(tagSet, tag), a.ifds[k], bufx,
                                             b.ifds[k], bufy)
                      ELSE IF isOffsetData(tagSet, tag) /\ a.data.k = "list"
                      THEN /\ Len(a.data.v) = Len(b.data.v)
                           /\ \A n \in 1..Len(a.data.v) :
                                 BlockBytes(bufx, x[i], tag, n) = BlockBytes(bufy, y[i], tag, n)
                      ELSE a.datatype = b.datatype /\ a.data = b.data
\* the tree was written with ifdsFirst=True
IfdsFirstWritten == last.op = "write" /\ last.err = "" /\ last.kw.ifdsfirst
\* what write_tiff gives for the same tree, path and options with
\* ifdsFirst=False
DataFirstWritten ==
    write_tiff(Catalogue, orig.ifds, last.path,
               IF last.kw.bigendian.has THEN last.kw.bigendian.v ELSE orig.bigEndian,
               last.startBigtiff, last.allowExisting, FALSE, last.kw.dedup)

\* C28: the file written with ifdsFirst=True and the file written with
\* ifdsFirst=False from the same tree re-read as equal trees, with offset
\* tags that point at the same payload bytes: the offsets the IFDs-first
\* directories hold are the positions where the values and payload blocks
\* were written.
C28_IfdsFirstSameTree ==
    IfdsFirstWritten =>
       /\ DataFirstWritten.err = ""
       /\ read_tiff(disk, last.path).err = ""
       /\ SameWritten("Tag", read_tiff(disk, last.path).ifds, disk[last.path],
                      read_tiff(DataFirstWritten.fs, last.path).ifds,
                      DataFirstWritten.fs[last.path])

(***************************************************************************)
(* write_tiff with dedup: what a directory refers to                       *)
(***************************************************************************)
\* two files were concatenated with dedup on
DedupDone == td.calls = 1 /\ td.kw.dedup /\ td.err = ""
\* directory i of the output and the directory of source i it was made from
DedupOut(i) == td.info.ifds[i]
DedupSrc(i) == read_tiff(td.before, td.source[i]).ifds[1]
\* the bytes of strip n of a directory in the file it points into
StripBytes(bytes, ifd, n) ==
    Slice(bytes, ifd.tags[StripOffsets].data.v[n],
          ifd.tags[StripOffsets].data.v[n] + ifd.tags[StripByteCounts].data.v[n])

\* C29: in a file written with dedup on, data-first or IFDs-first, every tag
\* re-reads with the value it was given and the offsets of every directory
\* point at the bytes of that directory's own strips, also when the
\* directories come from different files with byte-identical offset arrays.
C29_DedupKeepsReferences ==
    DedupDone =>
       /\ td.info.err = "" /\ Len(td.info.ifds) = 2
       /\ \A i \in 1..2 :
             /\ DOMAIN DedupOut(i).tags = DOMAIN DedupSrc(i).tags
             /\ \A tag \in {256, 270, StripByteCounts} :
                   DedupOut(i).tags[tag].data = DedupSrc(i).tags[tag].data
             /\ Len(DedupOut(i).tags[StripOffsets].data.v) = 2
             /\ \A n \in 1..2 :
                   StripBytes(td.fs["o.tif"], DedupOut(i), n)
                      = StripBytes(td.before[td.source[i]], DedupSrc(i), n)

(***************************************************************************)
(* write_tiff: the tree that was passed                                    *)
(***************************************************************************)
\* write_tiff was called on the tree and got past the test of the path
WriteCalled == last.op = "write" /\ last.err # "File already exists"
\* the file write_tiff gives for the tree as it was before the call, on the
\* file system as it was before the call, with bigtiff=True
BigtiffFromStart ==
    write_tiff(Catalogue, orig.ifds, last.path,
               IF last.kw.bigendian.has THEN last.kw.bigendian.v ELSE orig.bigEndian,
               TRUE, last.allowExisting, last.kw.ifdsfirst, last.kw.dedup).fs[last.path]

\* C30: write_tiff leaves the tree it was passed as it was: after the call,
\* also one that was retried in BigTIFF mode, every tag of every directory has
\* the datatype and data it had before, and the file of a retried write is the
\* file write_tiff gives with bigtiff=True from the start.
C30_TreeNotModified ==
    WriteCalled =>
       /\ tree.ifds = orig.ifds
       /\ (last.err = "" /\ last.retried # <<>>) => disk[last.path] = BigtiffFromStart

=============================================================================
